---- MODULE Spec2Model ----
(***************************************************************************)
(* Model of the volatility- and correlation-adjusted position-risk engine  *)
(* of AgentVest: src/src/agents/risk_manager.py (risk_management_agent and *)
(* its helpers) and the price fetch of src/src/tools/api.py (get_prices).  *)
(*                                                                         *)
(* Numbers are fixed point, in the units below.  Square roots are taken    *)
(* downwards (Isqrt), so a comparison "x < threshold" against a threshold  *)
(* on the grid decides as it does on the reals.                            *)
(*   money (cash, prices, portfolio value)   1 unit   (100 dollars in the  *)
(*                                                    spec's scenarios)    *)
(*   limits (position_limit, remaining ...)  1 / LimitScale of a unit      *)
(*   returns                                 1 / 100      (percent)        *)
(*   daily volatility                        1 / 10000    (basis points)   *)
(*   annualized volatility, correlations     1 / 100                       *)
(*   volatility multiplier                   1 / 1000                      *)
(*   base limit percentage                   1 / 100000                    *)
(*   correlation multiplier                  1 / 20                        *)
(*   combined limit percentage               1 / LimitScale                *)
(***************************************************************************)
EXTENDS Integers, Sequences, FiniteSets, TLC

LimitScale == 100000 * 20

Min(a, b) == IF a <= b THEN a ELSE b
Max(a, b) == IF a >= b THEN a ELSE b
Abs(a) == IF a >= 0 THEN a ELSE -a

\* Python's None and a present float value.
None == [kind |-> "None"]
NaN == [kind |-> "NaN"]
Some(x) == [kind |-> "float", value |-> x]

RECURSIVE SqrtBetween(_, _, _)
SqrtBetween(n, lo, hi) ==
    IF lo >= hi THEN lo
    ELSE LET mid == (lo + hi + 1) \div 2
         IN  IF mid * mid <= n THEN SqrtBetween(n, mid, hi)
                               ELSE SqrtBetween(n, lo, mid - 1)

\* floor(sqrt(n)) for 0 <= n < 2^30
Isqrt(n) == SqrtBetween(n, 0, 32767)

(***************************************************************************)
(* CRYPTO_RISK_FACTORS                                                     *)
(***************************************************************************)
MaxPositionSize == 15
SafeVolatilityThreshold == 300

\* risk_management_agent's fallbacks when no usable price data came back
FallbackDailyVolatility == 500
DefaultAnnualizedVolatility == 25

\* calculate_volatility_metrics: lookback_days and the rolling window
LookbackDays == 60
RollingWindow == 30

\* np.sqrt(365) and np.sqrt(252), two decimals
Sqrt365 == Isqrt(365 * 10000)
Sqrt252 == Isqrt(252 * 10000)

AnnualizeTradingDays(daily_vol, factor) == (daily_vol * Sqrt252) \div 10000

\* daily volatility (basis points) times an annualization factor, in 1/100
Annualize(daily_vol, factor) == (daily_vol * factor) \div 10000

(***************************************************************************)
(* calculate_volatility_adjusted_limit                                     *)
(***************************************************************************)
VolMultiplierExclusive(annualized_volatility) ==
    IF annualized_volatility <= 25 THEN 1000
    ELSE IF annualized_volatility <= 50
         THEN 850 - (annualized_volatility - 25) * 4
    ELSE IF annualized_volatility <= 75
         THEN 650 - (annualized_volatility - 50) * 6
    ELSE IF annualized_volatility <= 100 THEN 300
    ELSE 130

\* the if/elif chain that picks vol_multiplier
VolMultiplier(annualized_volatility) ==
    IF annualized_volatility < 25 THEN 1000
    ELSE IF annualized_volatility < 50
         THEN 850 - (annualized_volatility - 25) * 4
    ELSE IF annualized_volatility < 75
         THEN 650 - (annualized_volatility - 50) * 6
    ELSE IF annualized_volatility < 100 THEN 300
    ELSE 130

calculate_volatility_adjusted_limit_extreme_typo(annualized_volatility) ==
    MaxPositionSize * Max(130, Min(1000, IF annualized_volatility >= 100 THEN 1300 ELSE VolMultiplier(annualized_volatility)))

calculate_volatility_adjusted_limit(annualized_volatility) ==
    MaxPositionSize * Max(130, Min(1000, VolMultiplier(annualized_volatility)))

(***************************************************************************)
(* calculate_correlation_multiplier                                        *)
(***************************************************************************)
CorrelationMultiplierExclusive(avg_correlation) ==
    IF avg_correlation > 80 THEN 14
    ELSE IF avg_correlation > 60 THEN 17
    ELSE IF avg_correlation > 40 THEN 20
    ELSE IF avg_correlation > 20 THEN 21
    ELSE 22

calculate_correlation_multiplier(avg_correlation) ==
    IF avg_correlation >= 80 THEN 14
    ELSE IF avg_correlation >= 60 THEN 17
    ELSE IF avg_correlation >= 40 THEN 20
    ELSE IF avg_correlation >= 20 THEN 21
    ELSE 22

(***************************************************************************)
(* Price frames.  A price row is [time, close]; prices_to_df orders the    *)
(* rows by time.  A return row is [time, ret, inf]: pct_change of the      *)
(* close, undefined rows (the first one, and 0/0) dropped, x/0 infinite.   *)
(***************************************************************************)
RECURSIVE InsertByTime(_, _)
InsertByTime(row, df) ==
    IF df = <<>> THEN <<row>>
    ELSE IF df[Len(df)].time <= row.time THEN Append(df, row)
    ELSE Append(InsertByTime(row, SubSeq(df, 1, Len(df) - 1)), df[Len(df)])

RECURSIVE prices_to_df(_)
prices_to_df(prices) ==
    IF prices = <<>> THEN <<>>
    ELSE InsertByTime(prices[Len(prices)],
                      prices_to_df(SubSeq(prices, 1, Len(prices) - 1)))

PctChangeRow(prev, cur) ==
    IF prev.close = 0
    THEN [time |-> cur.time, ret |-> 0, inf |-> TRUE]
    ELSE [time |-> cur.time,
          ret |-> ((cur.close - prev.close) * 100) \div prev.close,
          inf |-> FALSE]

RECURSIVE PctChangeFrom(_, _)
PctChangeFrom(df, i) ==
    IF i > Len(df) THEN <<>>
    ELSE IF df[i - 1].close = 0 /\ df[i].close = 0
         THEN PctChangeFrom(df, i + 1)
         ELSE <<PctChangeRow(df[i - 1], df[i])>> \o PctChangeFrom(df, i + 1)

\* prices_df["close"].pct_change().dropna()
DailyReturns(df) == PctChangeFrom(df, 2)

LastN(s, n) == SubSeq(s, Len(s) - n + 1, Len(s))

RECURSIVE SumRet(_)
SumRet(rs) == IF rs = <<>> THEN 0 ELSE rs[1].ret + SumRet(SubSeq(rs, 2, Len(rs)))

RECURSIVE SumSqDev(_, _, _)
SumSqDev(rs, n, total) ==
    IF rs = <<>> THEN 0
    ELSE (n * rs[1].ret - total) * (n * rs[1].ret - total)
         + SumSqDev(SubSeq(rs, 2, Len(rs)), n, total)

AnyInf(rs) == \E i \in 1..Len(rs) : rs[i].inf

StdZeroUndefined(rs) ==
    IF Len(rs) < 2 \/ AnyInf(rs) \/ SumSqDev(rs, Len(rs), SumRet(rs)) = 0 THEN NaN
    ELSE LET n == Len(rs)
         IN  Some(Isqrt((10000 * SumSqDev(rs, n, SumRet(rs))) \div (n * n * (n - 1))))

\* Series.std(): the sample standard deviation, in basis points; NaN for
\* fewer than two values or an infinite value.
Std(rs) ==
    IF Len(rs) < 2 \/ AnyInf(rs) THEN NaN
    ELSE LET n == Len(rs)
         IN  Some(Isqrt((10000 * SumSqDev(rs, n, SumRet(rs))) \div (n * n * (n - 1))))

\* daily_returns.rolling(window=30).std().dropna()
RollingVol(daily_returns) ==
    LET windows == [i \in 1..(Len(daily_returns) - RollingWindow + 1) |->
                        Std(SubSeq(daily_returns, i, i + RollingWindow - 1))]
    IN  SelectSeq(windows, LAMBDA v : v # NaN)

CountBelow(vols, daily_vol) ==
    Cardinality({i \in 1..Len(vols) : vols[i].value < daily_vol.value})

CountAtMost(vols, daily_vol) ==
    Cardinality({i \in 1..Len(vols) : vols[i].value <= daily_vol.value})

VolPercentileNeedsMore(daily_returns, daily_vol) ==
    IF Len(daily_returns) > RollingWindow
    THEN LET rolling_vol == RollingVol(daily_returns)
         IN  IF Len(rolling_vol) > 0
             THEN IF daily_vol = NaN THEN Some(0)
                  ELSE Some((100 * CountAtMost(rolling_vol, daily_vol))
                            \div Len(rolling_vol))
             ELSE Some(50)
    ELSE Some(50)

\* (rolling_vol <= daily_vol).mean() * 100; a comparison with NaN is False
VolPercentile(daily_returns, daily_vol) ==
    IF Len(daily_returns) >= RollingWindow
    THEN LET rolling_vol == RollingVol(daily_returns)
         IN  IF Len(rolling_vol) > 0
             THEN IF daily_vol = NaN THEN Some(0)
                  ELSE Some((100 * CountAtMost(rolling_vol, daily_vol))
                            \div Len(rolling_vol))
             ELSE Some(50)
    ELSE Some(50)

(***************************************************************************)
(* calculate_volatility_metrics(prices_df, lookback_days = 60)             *)
(***************************************************************************)
SafeFallbackMetrics(n) ==
    [daily_volatility |-> SafeVolatilityThreshold,
     annualized_volatility |-> Annualize(SafeVolatilityThreshold, Sqrt365),
     volatility_percentile |-> 100,
     data_points |-> n]

calculate_volatility_metrics_whole_fallback(prices_df) ==
    IF Len(prices_df) < 2 THEN SafeFallbackMetrics(Len(prices_df))
    ELSE
    LET daily_returns == DailyReturns(prices_df) IN
    IF Len(daily_returns) < 2 THEN SafeFallbackMetrics(Len(daily_returns))
    ELSE
    LET recent_returns == LastN(daily_returns, Min(LookbackDays, Len(daily_returns)))
        daily_vol == Std(recent_returns)
        current_vol_percentile == VolPercentile(daily_returns, daily_vol)
    IN  IF daily_vol = NaN THEN SafeFallbackMetrics(Len(recent_returns))
        ELSE [daily_volatility |-> daily_vol.value,
              annualized_volatility |-> Annualize(daily_vol.value, Sqrt365),
              volatility_percentile |-> current_vol_percentile.value,
              data_points |-> Len(recent_returns)]

calculate_volatility_metrics(prices_df) ==
    IF Len(prices_df) < 2 THEN SafeFallbackMetrics(Len(prices_df))
    ELSE
    LET daily_returns == DailyReturns(prices_df) IN
    IF Len(daily_returns) < 2 THEN SafeFallbackMetrics(Len(daily_returns))
    ELSE
    LET recent_returns == LastN(daily_returns, Min(LookbackDays, Len(daily_returns)))
        daily_vol == Std(recent_returns)
        current_vol_percentile == VolPercentile(daily_returns, daily_vol)
    IN  [daily_volatility |->
            IF daily_vol # NaN THEN daily_vol.value ELSE SafeVolatilityThreshold,
         annualized_volatility |->
            IF daily_vol # NaN THEN Annualize(daily_vol.value, Sqrt365)
            ELSE Annualize(SafeVolatilityThreshold, Sqrt365),
         volatility_percentile |->
            IF current_vol_percentile # NaN THEN current_vol_percentile.value ELSE 50,
         data_points |-> Len(recent_returns)]


(***************************************************************************)
(* Correlation analysis: pd.DataFrame(returns_by_ticker).dropna(how="any") *)
(* and DataFrame.corr() (pairwise Pearson).                                *)
(***************************************************************************)
TimesOf(rs) == {rs[i].time : i \in 1..Len(rs)}

\* the index left by dropna(how="any"): the times every column has
AlignedTimes(returns) ==
    {d \in UNION {TimesOf(returns[t]) : t \in DOMAIN returns} :
        \A t \in DOMAIN returns : d \in TimesOf(returns[t])}

AlignedColumn(rs, times) == SelectSeq(rs, LAMBDA r : r.time \in times)

RECURSIVE SumCoDev(_, _, _, _, _)
SumCoDev(xs, ys, n, sx, sy) ==
    IF xs = <<>> THEN 0
    ELSE (n * xs[1].ret - sx) * (n * ys[1].ret - sy)
         + SumCoDev(SubSeq(xs, 2, Len(xs)), SubSeq(ys, 2, Len(ys)), n, sx, sy)

\* Pearson correlation of two aligned columns, in 1/100; NaN when a column
\* has no variance or an infinite value.
Pearson(xs, ys) ==
    LET n == Len(xs)
        sx == SumRet(xs)
        sy == SumRet(ys)
        cxx == SumSqDev(xs, n, sx)
        cyy == SumSqDev(ys, n, sy)
    IN  IF AnyInf(xs) \/ AnyInf(ys) \/ cxx = 0 \/ cyy = 0 THEN NaN
        ELSE Some((100 * SumCoDev(xs, ys, n, sx, sy)) \div Isqrt(cxx * cyy))

MinAlignedRows == 5

BuildCorrelationMatrix(returns) ==
    IF Cardinality(DOMAIN returns) >= 2
    THEN LET times == AlignedTimes(returns)
             cols == DOMAIN returns
         IN  IF Cardinality(cols) >= 2 /\ Cardinality(times) >= MinAlignedRows
             THEN [kind |-> "DataFrame",
                   columns |-> cols,
                   corr |-> [a \in cols |-> [b \in cols |->
                                Pearson(AlignedColumn(returns[a], times),
                                        AlignedColumn(returns[b], times))]]]
             ELSE None
    ELSE None

(***************************************************************************)
(* get_prices: the provider's answer to one klines request is a response   *)
(* with a status and rows, or no response at all (the request timed out).  *)
(***************************************************************************)
HttpOk == 200

get_prices_empty_raises(answer) ==
    IF answer.kind = "timeout" \/ answer.status # HttpOk \/ answer.klines = <<>>
    THEN [raised |-> TRUE, prices |-> <<>>]
    ELSE [raised |-> FALSE, prices |-> answer.klines]

get_prices(answer) ==
    IF answer.kind = "timeout" \/ answer.status # HttpOk
    THEN [raised |-> TRUE, prices |-> <<>>]
    ELSE [raised |-> FALSE, prices |-> answer.klines]

\* cache_key = f"{symbol}_{start_date}_{end_date}_{interval}"
CacheKey(symbol, start_date, end_date, interval) ==
    <<symbol, start_date, end_date, interval>>

\* _cache.get_prices(cache_key): the list stored under the key, or nothing
CacheGetPrices(store, cache_key) ==
    IF cache_key \in DOMAIN store THEN store[cache_key] ELSE <<>>

\* _cache.set_prices(cache_key, data)
CacheSetPrices(store, cache_key, data) ==
    [k \in DOMAIN store \cup {cache_key} |->
        IF k = cache_key THEN data ELSE store[k]]

\* p.model_dump() and Price(**price) on the fields the model keeps
ModelDump(price) == [time |-> price.time, close |-> price.close]

PriceOf(dumped) == [time |-> dumped.time, close |-> dumped.close]

get_prices_cached_stores_empty(store, cache_key, answer) ==
    LET cached_data == CacheGetPrices(store, cache_key)
        fetched == get_prices(answer)
    IN  IF cached_data # <<>>
        THEN [raised |-> FALSE, http |-> FALSE, cache |-> store,
              prices |-> [i \in 1..Len(cached_data) |-> PriceOf(cached_data[i])]]
        ELSE [raised |-> fetched.raised, http |-> TRUE, prices |-> fetched.prices,
              cache |-> IF fetched.raised THEN store
                        ELSE CacheSetPrices(store, cache_key,
                                 [i \in 1..Len(fetched.prices) |->
                                     ModelDump(fetched.prices[i])])]

\* get_prices with its cache: lines 86-90, then the request of lines 105-129
\* and the store of line 132.  http tells whether a request was issued.
get_prices_cached(store, cache_key, answer) ==
    LET cached_data == CacheGetPrices(store, cache_key)
        fetched == get_prices(answer)
    IN  IF cached_data # <<>>
        THEN [raised |-> FALSE, http |-> FALSE, cache |-> store,
              prices |-> [i \in 1..Len(cached_data) |-> PriceOf(cached_data[i])]]
        ELSE [raised |-> fetched.raised, http |-> TRUE, prices |-> fetched.prices,
              cache |-> IF fetched.raised \/ fetched.prices = <<>> THEN store
                        ELSE CacheSetPrices(store, cache_key,
                                 [i \in 1..Len(fetched.prices) |->
                                     ModelDump(fetched.prices[i])])]

(***************************************************************************)
(* The per-ticker limit computation of risk_management_agent.              *)
(***************************************************************************)
PositionOf(portfolio, ticker) ==
    IF ticker \in DOMAIN portfolio.positions
    THEN portfolio.positions[ticker]
    ELSE [long |-> 0, short |-> 0]

GrossPositionValue(position, current_price) ==
    position.long * current_price + position.short * current_price

\* current_position_value = abs(long_value - short_value)
CurrentPositionValue(position, current_price) ==
    Abs(position.long * current_price - position.short * current_price)

ActivePositions(portfolio) ==
    {t \in DOMAIN portfolio.positions :
        Abs(portfolio.positions[t].long - portfolio.positions[t].short) > 0}

RECURSIVE SumValues(_, _, _)
SumValues(portfolio, prices, held) ==
    IF held = {} THEN 0
    ELSE LET t == CHOOSE x \in held : TRUE
             rest == SumValues(portfolio, prices, held \ {t})
         IN  IF t \in DOMAIN prices
             THEN rest + portfolio.positions[t].long * prices[t]
                       - portfolio.positions[t].short * prices[t]
             ELSE rest

TotalPortfolioValueCashOnly(portfolio, prices) == portfolio.cash

\* Net liquidation value over the held tickers with an entry in current_prices
TotalPortfolioValue(portfolio, prices) ==
    portfolio.cash + SumValues(portfolio, prices, DOMAIN portfolio.positions)

RECURSIVE InsertDescending(_, _)
InsertDescending(item, sorted) ==
    IF sorted = <<>> THEN <<item>>
    ELSE IF sorted[Len(sorted)].correlation >= item.correlation
         THEN Append(sorted, item)
         ELSE Append(InsertDescending(item, SubSeq(sorted, 1, Len(sorted) - 1)),
                     sorted[Len(sorted)])

\* series.sort_values(ascending=False): equal values keep their order
RECURSIVE SortDescending(_)
SortDescending(series) ==
    IF series = <<>> THEN <<>>
    ELSE InsertDescending(series[Len(series)],
                          SortDescending(SubSeq(series, 1, Len(series) - 1)))

RECURSIVE SumCorrelation(_)
SumCorrelation(series) ==
    IF series = <<>> THEN 0
    ELSE series[1].correlation + SumCorrelation(SubSeq(series, 2, Len(series)))

HeadAll(series) == series

Head3(series) == SubSeq(series, 1, Min(3, Len(series)))

\* corr_metrics as initialised for every ticker
NoCorrelation ==
    [avg_correlation_with_active |-> None,
     max_correlation_with_active |-> None,
     top_correlated_tickers |-> <<>>]

\* correlation_matrix.loc[ticker, comparable].dropna() and what is derived
\* from it; comparable is the list in its iteration order.
CorrelationMetrics(ticker, matrix, comparable) ==
    LET defined == SelectSeq(comparable,
                             LAMBDA t : matrix.corr[ticker][t] # NaN)
        series == [i \in 1..Len(defined) |->
                      [ticker |-> defined[i],
                       correlation |-> matrix.corr[ticker][defined[i]].value]]
        sorted == SortDescending(series)
    IN  IF Len(series) > 0
        THEN LET avg_corr == SumCorrelation(series) \div Len(series)
             IN  [avg_correlation_with_active |-> Some(avg_corr),
                  max_correlation_with_active |-> Some(sorted[1].correlation),
                  top_correlated_tickers |-> Head3(sorted)]
        ELSE NoCorrelation

\* corr_multiplier: 1.0 unless an average correlation was computed
CorrMultiplier(avg_correlation) ==
    IF avg_correlation = None THEN 20
    ELSE calculate_correlation_multiplier(avg_correlation.value)

\* the tickers whose correlation with ticker is looked at
ComparableSet(ticker, matrix, active_positions) ==
    LET with_active == {t \in active_positions :
                            t \in matrix.columns /\ t # ticker}
    IN  IF with_active = {} THEN matrix.columns \ {ticker} ELSE with_active

Orderings(S) ==
    {q \in [1..Cardinality(S) -> S] : \A t \in S : \E i \in DOMAIN q : q[i] = t}

CombinedLimitPctClamped(vol_adjusted_limit_pct, corr_multiplier) ==
    Min(MaxPositionSize * 1000 * 20, vol_adjusted_limit_pct * corr_multiplier)

CombinedLimitPct(vol_adjusted_limit_pct, corr_multiplier) ==
    vol_adjusted_limit_pct * corr_multiplier

MaxPositionSizeUncapped(remaining_position_limit, cash) ==
    remaining_position_limit

\* min(remaining_position_limit, portfolio.get("cash", 0))
MaxPositionSizeFor(remaining_position_limit, cash) ==
    Min(remaining_position_limit, cash * LimitScale)

ErrorAssessment ==
    [remaining_position_limit |-> 0,
     current_price |-> 0,
     reasoning |-> [error |-> "Missing price data for risk calculation"]]

\* lines 148-151 and 180-185: from volatility and average correlation to the
\* position limit
PositionLimit(annualized_volatility, avg_correlation, total_portfolio_value) ==
    LET vol_adjusted_limit_pct ==
            calculate_volatility_adjusted_limit(annualized_volatility)
        corr_multiplier == CorrMultiplier(avg_correlation)
        combined_limit_pct == CombinedLimitPct(vol_adjusted_limit_pct, corr_multiplier)
    IN  [base_position_limit_pct |-> vol_adjusted_limit_pct,
         correlation_multiplier |-> corr_multiplier,
         combined_position_limit_pct |-> combined_limit_pct,
         position_limit |-> total_portfolio_value * combined_limit_pct]

RiskAssessment(portfolio, ticker, current_price, vol_data, corr_metrics, value) ==
    LET current_position_value ==
            CurrentPositionValue(PositionOf(portfolio, ticker), current_price)
        limit == PositionLimit(vol_data.annualized_volatility,
                               corr_metrics.avg_correlation_with_active,
                               value)
        remaining_position_limit ==
            limit.position_limit - current_position_value * LimitScale
    IN  [remaining_position_limit |->
             MaxPositionSizeFor(remaining_position_limit, portfolio.cash),
         current_price |-> current_price,
         volatility_metrics |-> vol_data,
         correlation_metrics |-> corr_metrics,
         reasoning |->
            [portfolio_value |-> value,
             current_position_value |-> current_position_value,
             base_position_limit_pct |-> limit.base_position_limit_pct,
             correlation_multiplier |-> limit.correlation_multiplier,
             combined_position_limit_pct |-> limit.combined_position_limit_pct,
             position_limit |-> limit.position_limit,
             remaining_limit |-> remaining_position_limit,
             available_cash |-> portfolio.cash]]

(***************************************************************************)
(* Inputs: requested tickers, portfolios and provider answers.             *)
(***************************************************************************)
MaxTickers == 2

Requestable == {"BTCUSDT", "ETHUSDT"}

Requests ==
    UNION {[1..n -> Requestable] : n \in 1..MaxTickers}

NoPositions == [t \in {} |-> [long |-> 0, short |-> 0]]

Portfolios ==
    {[cash |-> 1000, positions |-> NoPositions],
     [cash |-> -100, positions |-> NoPositions],
     [cash |-> 100,  positions |-> [t \in {"ETHUSDT"} |-> [long |-> 2, short |-> 0]]],
     [cash |-> 100,  positions |-> [t \in {"BTCUSDT"} |-> [long |-> 2, short |-> 0]]],
     [cash |-> 1000, positions |-> [t \in {"SOLUSDT"} |-> [long |-> 0, short |-> 1]]],
     [cash |-> 0,    positions |->
        [t \in {"ETHUSDT", "SOLUSDT"} |->
            IF t = "ETHUSDT" THEN [long |-> 1, short |-> 1]
                             ELSE [long |-> 2, short |-> 0]]],
     [cash |-> 100,  positions |-> [t \in {"BTCUSDT"} |-> [long |-> -1, short |-> 0]]],
     [cash |-> 1000, positions |->
        [t \in {"ETHUSDT", "SOLUSDT"} |-> [long |-> 1, short |-> 0]]]}

\* daily rows ending at the end date (day 6)
Klines(closes) ==
    [i \in 1..Len(closes) |-> [time |-> 6 - Len(closes) + i, close |-> closes[i]]]

KlineFeeds ==
    {Klines(<<>>),
     Klines(<<100>>),
     Klines(<<5, 5>>),
     Klines(<<100, 100, 0>>),
     Klines(<<100, 100, 100, 100, 100, 100>>),
     Klines(<<100, 101, 100, 101, 100, 101>>),
     Klines(<<101, 100, 101, 100, 101, 100>>),
     Klines(<<100, 102, 100, 102, 104, 102>>)}

\* data["start_date"] and data["end_date"], as day numbers
DateRanges == {[start_date |-> 1, end_date |-> 6], [start_date |-> 0, end_date |-> 6]}

DefaultDates == [start_date |-> 1, end_date |-> 6]

\* interval: str = "1d"
DefaultInterval == "1d"

FailedAnswers ==
    {[kind |-> "response", status |-> 500, klines |-> <<>>],
     [kind |-> "timeout", status |-> 0, klines |-> <<>>]}

ProviderAnswers ==
    {[kind |-> "response", status |-> HttpOk, klines |-> k] : k \in KlineFeeds}
    \cup FailedAnswers

(***************************************************************************)
(* State of one invocation of risk_management_agent.                       *)
(***************************************************************************)
VARIABLES
    pc,                    \* idle, fetch, value, limits, done, raised, request, called
    tickers,               \* data["tickers"]
    portfolio,             \* data["portfolio"]
    pending,               \* tickers of all_tickers the first loop has not visited
    answers,               \* the provider's answer for each ticker at its fetch
    current_prices,
    volatility_data,
    returns_by_ticker,
    correlation_matrix,
    active_positions,
    total_portfolio_value,
    next_ticker,           \* position of the second loop in tickers
    risk_analysis,
    result,                \* data["analyst_signals"][agent_id] of the returned state
    call,                  \* a direct call of a helper: function, argument, value
    dates,                 \* data["start_date"], data["end_date"]
    cache,                 \* _cache: the price lists stored under their keys
    invocations            \* how often the agent has been entered

vars == <<pc, tickers, portfolio, pending, answers, current_prices,
          volatility_data, returns_by_ticker, correlation_matrix,
          active_positions, total_portfolio_value, next_ticker, risk_analysis,
          result, call, dates, cache, invocations>>

Empty == [t \in {} |-> 0]
NoCall == [fn |-> "none"]

Put(f, k, v) == [x \in DOMAIN f \cup {k} |-> IF x = k THEN v ELSE f[x]]

Range(q) == {q[i] : i \in DOMAIN q}

Init ==
    /\ pc = "idle"
    /\ tickers = <<>>
    /\ portfolio = [cash |-> 0, positions |-> NoPositions]
    /\ pending = {}
    /\ answers = Empty
    /\ current_prices = Empty
    /\ volatility_data = Empty
    /\ returns_by_ticker = Empty
    /\ correlation_matrix = None
    /\ active_positions = {}
    /\ total_portfolio_value = 0
    /\ next_ticker = 1
    /\ risk_analysis = Empty
    /\ result = None
    /\ call = NoCall
    /\ dates = DefaultDates
    /\ cache = Empty
    /\ invocations = 0

\* lines 32-44: the agent is entered with a state holding tickers, portfolio
\* and dates; its locals start empty
Enter(tk, pf, d) ==
    /\ tickers' = tk
    /\ portfolio' = pf
    /\ dates' = d
    /\ pending' = Range(tk) \cup DOMAIN pf.positions
    /\ answers' = Empty
    /\ current_prices' = Empty
    /\ volatility_data' = Empty
    /\ returns_by_ticker' = Empty
    /\ correlation_matrix' = None
    /\ active_positions' = {}
    /\ total_portfolio_value' = 0
    /\ next_ticker' = 1
    /\ risk_analysis' = Empty
    /\ result' = None
    /\ invocations' = invocations + 1
    /\ pc' = "fetch"
    /\ UNCHANGED <<call, cache>>

\* the one invocation of a fresh process
Invoke ==
    /\ pc = "idle"
    /\ \E tk \in Requests, pf \in Portfolios : Enter(tk, pf, DefaultDates)

\* the call of get_prices the first loop makes for a ticker (lines 49-54)
Fetched(ticker, answer) ==
    get_prices_cached(cache,
        CacheKey(ticker, dates.start_date, dates.end_date, DefaultInterval), answer)

FallbackVolatility(data_points) ==
    [daily_volatility |-> FallbackDailyVolatility,
     annualized_volatility |-> Annualize(FallbackDailyVolatility, Sqrt252),
     volatility_percentile |-> 100,
     data_points |-> data_points]

\* lines 49-54 with get_prices raising: nothing catches it
FetchRaises ==
    /\ pc = "fetch"
    /\ \E ticker \in pending, answer \in ProviderAnswers :
        /\ Fetched(ticker, answer).raised
        /\ answers' = Put(answers, ticker, answer)
        /\ cache' = Fetched(ticker, answer).cache
    /\ pc' = "raised"
    /\ UNCHANGED <<tickers, portfolio, pending, current_prices, volatility_data,
                   returns_by_ticker, correlation_matrix, active_positions,
                   total_portfolio_value, next_ticker, risk_analysis, result, call,
                   dates, invocations>>

\* lines 56-64: not prices
FetchNoPrices ==
    /\ pc = "fetch"
    /\ \E ticker \in pending, answer \in ProviderAnswers :
        /\ ~Fetched(ticker, answer).raised
        /\ Fetched(ticker, answer).prices = <<>>
        /\ answers' = Put(answers, ticker, answer)
        /\ cache' = Fetched(ticker, answer).cache
        /\ volatility_data' = Put(volatility_data, ticker, FallbackVolatility(0))
        /\ pending' = pending \ {ticker}
    /\ UNCHANGED <<pc, tickers, portfolio, current_prices, returns_by_ticker,
                   correlation_matrix, active_positions, total_portfolio_value,
                   next_ticker, risk_analysis, result, call,
                   dates, invocations>>

\* lines 66-85: more than one price row
FetchPrices ==
    /\ pc = "fetch"
    /\ \E ticker \in pending, answer \in ProviderAnswers :
        LET prices == Fetched(ticker, answer).prices
            prices_df == prices_to_df(prices)
            daily_returns == DailyReturns(prices_df)
        IN  /\ ~Fetched(ticker, answer).raised
            /\ prices # <<>>
            /\ Len(prices_df) > 1
            /\ answers' = Put(answers, ticker, answer)
            /\ cache' = Fetched(ticker, answer).cache
            /\ current_prices' =
                   Put(current_prices, ticker, prices_df[Len(prices_df)].close)
            /\ volatility_data' =
                   Put(volatility_data, ticker, calculate_volatility_metrics(prices_df))
            /\ returns_by_ticker' =
                   IF Len(daily_returns) > 0
                   THEN Put(returns_by_ticker, ticker, daily_returns)
                   ELSE returns_by_ticker
            /\ pending' = pending \ {ticker}
    /\ UNCHANGED <<pc, tickers, portfolio, correlation_matrix, active_positions,
                   total_portfolio_value, next_ticker, risk_analysis, result, call,
                   dates, invocations>>

FetchInsufficientKeepsClose ==
    /\ pc = "fetch"
    /\ \E ticker \in pending, answer \in ProviderAnswers :
        LET prices == Fetched(ticker, answer).prices
            prices_df == prices_to_df(prices)
        IN  /\ ~Fetched(ticker, answer).raised
            /\ prices # <<>>
            /\ ~(Len(prices_df) > 1)
            /\ answers' = Put(answers, ticker, answer)
            /\ cache' = Fetched(ticker, answer).cache
            /\ current_prices' =
                   Put(current_prices, ticker, prices_df[Len(prices_df)].close)
            /\ volatility_data' =
                   Put(volatility_data, ticker, FallbackVolatility(Len(prices_df)))
            /\ pending' = pending \ {ticker}
    /\ UNCHANGED <<pc, tickers, portfolio, returns_by_ticker, correlation_matrix,
                   active_positions, total_portfolio_value, next_ticker,
                   risk_analysis, result, call,
                   dates, invocations>>

\* lines 86-94: a single price row
FetchInsufficient ==
    /\ pc = "fetch"
    /\ \E ticker \in pending, answer \in ProviderAnswers :
        LET prices == Fetched(ticker, answer).prices
            prices_df == prices_to_df(prices)
        IN  /\ ~Fetched(ticker, answer).raised
            /\ prices # <<>>
            /\ ~(Len(prices_df) > 1)
            /\ answers' = Put(answers, ticker, answer)
            /\ cache' = Fetched(ticker, answer).cache
            /\ current_prices' = Put(current_prices, ticker, 0)
            /\ volatility_data' =
                   Put(volatility_data, ticker, FallbackVolatility(Len(prices_df)))
            /\ pending' = pending \ {ticker}
    /\ UNCHANGED <<pc, tickers, portfolio, returns_by_ticker, correlation_matrix,
                   active_positions, total_portfolio_value, next_ticker,
                   risk_analysis, result, call,
                   dates, invocations>>

CorrelationStepEarly ==
    /\ pc = "fetch"
    /\ correlation_matrix' = BuildCorrelationMatrix(returns_by_ticker)
    /\ pc' = "value"
    /\ UNCHANGED <<tickers, portfolio, pending, answers, current_prices,
                   volatility_data, returns_by_ticker, active_positions,
                   total_portfolio_value, next_ticker, risk_analysis, result, call,
                   dates, cache, invocations>>

\* lines 96-104, once the first loop has visited every ticker
CorrelationStep ==
    /\ pc = "fetch"
    /\ pending = {}
    /\ correlation_matrix' = BuildCorrelationMatrix(returns_by_ticker)
    /\ pc' = "value"
    /\ UNCHANGED <<tickers, portfolio, pending, answers, current_prices,
                   volatility_data, returns_by_ticker, active_positions,
                   total_portfolio_value, next_ticker, risk_analysis, result, call,
                   dates, cache, invocations>>

PortfolioValueStepWritesCash ==
    /\ pc = "value"
    /\ active_positions' = ActivePositions(portfolio)
    /\ total_portfolio_value' = TotalPortfolioValue(portfolio, current_prices)
    /\ portfolio' = [portfolio EXCEPT !.cash = TotalPortfolioValue(portfolio, current_prices)]
    /\ next_ticker' = 1
    /\ pc' = "limits"
    /\ UNCHANGED <<tickers, pending, answers, current_prices, volatility_data,
                   returns_by_ticker, correlation_matrix, risk_analysis, result, call,
                   dates, cache, invocations>>

\* lines 106-122
PortfolioValueStep ==
    /\ pc = "value"
    /\ active_positions' = ActivePositions(portfolio)
    /\ total_portfolio_value' = TotalPortfolioValue(portfolio, current_prices)
    /\ next_ticker' = 1
    /\ pc' = "limits"
    /\ UNCHANGED <<tickers, portfolio, pending, answers, current_prices,
                   volatility_data, returns_by_ticker, correlation_matrix,
                   risk_analysis, result, call,
                   dates, cache, invocations>>

HasValidPrice(prices, ticker) ==
    ticker \in DOMAIN prices /\ prices[ticker] > 0

DefaultVolData ==
    [daily_volatility |-> FallbackDailyVolatility,
     annualized_volatility |-> DefaultAnnualizedVolatility,
     volatility_percentile |-> 100,
     data_points |-> 0]

\* volatility_data.get(ticker, {}) read through .get(field, default)
VolDataOf(vol, ticker) ==
    IF ticker \in DOMAIN vol THEN vol[ticker] ELSE DefaultVolData

LimitMissingPriceSkips ==
    /\ pc = "limits"
    /\ next_ticker <= Len(tickers)
    /\ ~HasValidPrice(current_prices, tickers[next_ticker])
    /\ next_ticker' = next_ticker + 1
    /\ UNCHANGED <<pc, tickers, portfolio, pending, answers, current_prices,
                   volatility_data, returns_by_ticker, correlation_matrix,
                   active_positions, total_portfolio_value, risk_analysis,
                   result, call,
                   dates, cache, invocations>>

\* lines 128-137: no valid price
LimitMissingPrice ==
    /\ pc = "limits"
    /\ next_ticker <= Len(tickers)
    /\ ~HasValidPrice(current_prices, tickers[next_ticker])
    /\ risk_analysis' = Put(risk_analysis, tickers[next_ticker], ErrorAssessment)
    /\ next_ticker' = next_ticker + 1
    /\ UNCHANGED <<pc, tickers, portfolio, pending, answers, current_prices,
                   volatility_data, returns_by_ticker, correlation_matrix,
                   active_positions, total_portfolio_value, result, call,
                   dates, cache, invocations>>

\* lines 139-214
LimitStep ==
    /\ pc = "limits"
    /\ next_ticker <= Len(tickers)
    /\ HasValidPrice(current_prices, tickers[next_ticker])
    /\ LET ticker == tickers[next_ticker]
           vol_data == VolDataOf(volatility_data, ticker)
       IN  \/ /\ correlation_matrix # None
              /\ ticker \in correlation_matrix.columns
              /\ \E comparable \in Orderings(ComparableSet(ticker,
                                    correlation_matrix, active_positions)) :
                    risk_analysis' = Put(risk_analysis, ticker,
                        RiskAssessment(portfolio, ticker, current_prices[ticker],
                            vol_data,
                            CorrelationMetrics(ticker, correlation_matrix,
                                               comparable),
                            total_portfolio_value))
           \/ /\ ~(correlation_matrix # None /\ ticker \in correlation_matrix.columns)
              /\ risk_analysis' = Put(risk_analysis, ticker,
                    RiskAssessment(portfolio, ticker, current_prices[ticker],
                                   vol_data, NoCorrelation, total_portfolio_value))
    /\ next_ticker' = next_ticker + 1
    /\ UNCHANGED <<pc, tickers, portfolio, pending, answers, current_prices,
                   volatility_data, returns_by_ticker, correlation_matrix,
                   active_positions, total_portfolio_value, result, call,
                   dates, cache, invocations>>

\* lines 222-238
Return ==
    /\ pc = "limits"
    /\ next_ticker > Len(tickers)
    /\ result' = [kind |-> "dict", signals |-> risk_analysis]
    /\ pc' = "done"
    /\ UNCHANGED <<tickers, portfolio, pending, answers, current_prices,
                   volatility_data, returns_by_ticker, correlation_matrix,
                   active_positions, total_portfolio_value, next_ticker,
                   risk_analysis, call,
                   dates, cache, invocations>>

(***************************************************************************)
(* Direct calls of the helpers, as a caller or a test makes them.          *)
(***************************************************************************)
MaxVolatility == 120

AvgCorrelations == {None} \cup {Some(c) : c \in -100..100}

PortfolioValues == {1000, 110, 0, -200}

CallVolatilityAdjustedLimit ==
    /\ pc = "idle"
    /\ \E v \in 0..MaxVolatility :
        call' = [fn |-> "calculate_volatility_adjusted_limit", arg |-> v,
                 value |-> calculate_volatility_adjusted_limit(v)]
    /\ pc' = "called"
    /\ UNCHANGED <<tickers, portfolio, pending, answers, current_prices,
                   volatility_data, returns_by_ticker, correlation_matrix,
                   active_positions, total_portfolio_value, next_ticker,
                   risk_analysis, result,
                   dates, cache, invocations>>

CallCorrelationMultiplier ==
    /\ pc = "idle"
    /\ \E c \in -100..100 :
        call' = [fn |-> "calculate_correlation_multiplier", arg |-> c,
                 value |-> calculate_correlation_multiplier(c)]
    /\ pc' = "called"
    /\ UNCHANGED <<tickers, portfolio, pending, answers, current_prices,
                   volatility_data, returns_by_ticker, correlation_matrix,
                   active_positions, total_portfolio_value, next_ticker,
                   risk_analysis, result,
                   dates, cache, invocations>>

\* the longest close history handed to calculate_volatility_metrics directly
MaxHistory == 62

Alternating(n) == [i \in 1..n |-> 100 + ((i - 1) % 2)]

Flat(n, close) == [i \in 1..n |-> close]

\* close histories, handed over as frames already ordered by time: too
\* short, a zero close, equal closes, 29 to 32 returns, and longer than the
\* lookback
\* whose oldest return is the largest
CloseHistories ==
    {<<>>, <<100>>, <<100, 101>>, <<100, 0, 100>>, <<100, 101, 100, 102>>,
     Flat(2, 100), Flat(3, 100), Flat(RollingWindow + 1, 7), Flat(MaxHistory, 1),
     Alternating(RollingWindow),
     Alternating(RollingWindow + 1),
     Flat(5, 100) \o Alternating(RollingWindow - 2),
     Alternating(RollingWindow - 2) \o Flat(5, 101),
     <<100, 102>> \o [i \in 1..(MaxHistory - 2) |-> IF i % 4 = 2 THEN 103 ELSE 102]}

CallVolatilityMetrics ==
    /\ pc = "idle"
    /\ \E closes \in CloseHistories :
        LET prices_df == Klines(closes) IN
        call' = [fn |-> "calculate_volatility_metrics", arg |-> prices_df,
                 value |-> calculate_volatility_metrics(prices_df)]
    /\ pc' = "called"
    /\ UNCHANGED <<tickers, portfolio, pending, answers, current_prices,
                   volatility_data, returns_by_ticker, correlation_matrix,
                   active_positions, total_portfolio_value, next_ticker,
                   risk_analysis, result,
                   dates, cache, invocations>>

\* the symbols of a correlation matrix handed to the correlation adjustment
\* directly: the ticker and four others
ComparedSymbols == {"ETHUSDT", "SOLUSDT", "BNBUSDT", "XRPUSDT"}

CorrelationValues == {NaN, Some(-50), Some(90)}

\* a symmetric matrix whose row for ticker is given
MatrixWithRow(ticker, row) ==
    LET cols == ComparedSymbols \cup {ticker} IN
    [kind |-> "DataFrame",
     columns |-> cols,
     corr |-> [a \in cols |-> [b \in cols |->
                 IF a = b THEN Some(100)
                 ELSE IF a = ticker THEN row[b]
                 ELSE IF b = ticker THEN row[a]
                 ELSE NaN]]]

\* the correlation adjustment of lines 154-180 on a given matrix and given
\* active positions
CallCorrelationMetrics ==
    /\ pc = "idle"
    /\ \E row \in [ComparedSymbols -> CorrelationValues],
          active \in SUBSET (ComparedSymbols \cup {"BTCUSDT"}) :
        LET matrix == MatrixWithRow("BTCUSDT", row) IN
        \E comparable \in Orderings(ComparableSet("BTCUSDT", matrix, active)) :
            call' = [fn |-> "correlation_metrics",
                     arg |-> [ticker |-> "BTCUSDT", row |-> row,
                              active_positions |-> active],
                     value |-> CorrelationMetrics("BTCUSDT", matrix, comparable)]
    /\ pc' = "called"
    /\ UNCHANGED <<tickers, portfolio, pending, answers, current_prices,
                   volatility_data, returns_by_ticker, correlation_matrix,
                   active_positions, total_portfolio_value, next_ticker,
                   risk_analysis, result, dates, cache, invocations>>

(***************************************************************************)
(* _make_api_request: the loop over range(max_retries + 1).  The call      *)
(* record keeps the attempt number, the statuses received and the delays   *)
(* slept.                                                                  *)
(***************************************************************************)
MaxRetries == 3

TooManyRequests == 429

BackoffBase == 60

BackoffStep == 30

\* the statuses the server may answer with
Statuses == {HttpOk, TooManyRequests, 500}

CallMakeApiRequest ==
    /\ pc = "idle"
    /\ \E max_retries \in 0..MaxRetries :
        call' = [fn |-> "_make_api_request", arg |-> max_retries, attempt |-> 0,
                 statuses |-> <<>>, delays |-> <<>>, value |-> None]
    /\ pc' = "request"
    /\ UNCHANGED <<tickers, portfolio, pending, answers, current_prices,
                   volatility_data, returns_by_ticker, correlation_matrix,
                   active_positions, total_portfolio_value, next_ticker,
                   risk_analysis, result, dates, cache, invocations>>

ApiAttemptRetriesAlways ==
    /\ pc = "request"
    /\ \E status \in Statuses :
        IF status = TooManyRequests
        THEN /\ call' = [call EXCEPT
                            !.statuses = Append(@, status),
                            !.delays = Append(@, BackoffBase + BackoffStep * call.attempt),
                            !.attempt = @ + 1]
             /\ pc' = "request"
        ELSE /\ call' = [call EXCEPT
                            !.statuses = Append(@, status),
                            !.value = [kind |-> "Response", status_code |-> status]]
             /\ pc' = "called"
    /\ UNCHANGED <<tickers, portfolio, pending, answers, current_prices,
                   volatility_data, returns_by_ticker, correlation_matrix,
                   active_positions, total_portfolio_value, next_ticker,
                   risk_analysis, result, dates, cache, invocations>>

\* one pass of the loop body, lines 52-65: a request, then a sleep and the
\* next pass, or the return of the response
ApiAttempt ==
    /\ pc = "request"
    /\ \E status \in Statuses :
        IF status = TooManyRequests /\ call.attempt < call.arg
        THEN /\ call' = [call EXCEPT
                            !.statuses = Append(@, status),
                            !.delays = Append(@, BackoffBase + BackoffStep * call.attempt),
                            !.attempt = @ + 1]
             /\ pc' = "request"
        ELSE /\ call' = [call EXCEPT
                            !.statuses = Append(@, status),
                            !.value = [kind |-> "Response", status_code |-> status]]
             /\ pc' = "called"
    /\ UNCHANGED <<tickers, portfolio, pending, answers, current_prices,
                   volatility_data, returns_by_ticker, correlation_matrix,
                   active_positions, total_portfolio_value, next_ticker,
                   risk_analysis, result, dates, cache, invocations>>

\* requests.get or requests.post raises (no response): the exception leaves
\* the function
ApiRequestRaises ==
    /\ pc = "request"
    /\ call' = [call EXCEPT !.statuses = Append(@, 0),
                            !.value = [kind |-> "raised", status_code |-> 0]]
    /\ pc' = "called"
    /\ UNCHANGED <<tickers, portfolio, pending, answers, current_prices,
                   volatility_data, returns_by_ticker, correlation_matrix,
                   active_positions, total_portfolio_value, next_ticker,
                   risk_analysis, result, dates, cache, invocations>>

\* how many calls of get_prices a caller makes in a row
MaxCalls == 3

\* get_prices called directly, again and again: the call record keeps the
\* key, the provider's answer, whether a request was issued, the value, and
\* the first non-empty list each key has returned so far
CallGetPrices ==
    /\ pc \in {"idle", "called"}
    /\ call.fn \in {"none", "get_prices"}
    /\ \E d \in DateRanges, answer \in ProviderAnswers :
        LET cache_key == CacheKey("BTCUSDT", d.start_date, d.end_date, DefaultInterval)
            r == get_prices_cached(cache, cache_key, answer)
            n == IF call.fn = "none" THEN 0 ELSE call.n
            seen == IF call.fn = "none" THEN Empty ELSE call.seen
        IN  /\ n < MaxCalls
            /\ call' = [fn |-> "get_prices", arg |-> cache_key, answer |-> answer,
                        n |-> n + 1, earlier |-> cache_key \in DOMAIN seen,
                        http |-> r.http,
                        value |-> [raised |-> r.raised, prices |-> r.prices],
                        seen |-> IF cache_key \notin DOMAIN seen /\ ~r.raised
                                    /\ r.prices # <<>>
                                 THEN Put(seen, cache_key, r.prices)
                                 ELSE seen]
            /\ cache' = r.cache
    /\ pc' = "called"
    /\ UNCHANGED <<tickers, portfolio, pending, answers, current_prices,
                   volatility_data, returns_by_ticker, correlation_matrix,
                   active_positions, total_portfolio_value, next_ticker,
                   risk_analysis, result, dates, invocations>>

(***************************************************************************)
(* get_company_news and the news part of sentiment_analyst_agent.  A text  *)
(* is a sequence of characters, so that split() and "in" are computed.     *)
(* Percentages are in 1/100 (price change) or 1/10 (volatility, weekly     *)
(* change) of a percent, the resolution their titles print.               *)
(***************************************************************************)
Whitespace == {" "}

DigitChars == <<"0", "1", "2", "3", "4", "5", "6", "7", "8", "9">>

RECURSIVE Digits(_)
Digits(n) ==
    IF n < 10 THEN <<DigitChars[n + 1]>>
    ELSE Append(Digits(n \div 10), DigitChars[(n % 10) + 1])

RECURSIVE Pow10(_)
Pow10(decimals) == IF decimals = 0 THEN 1 ELSE 10 * Pow10(decimals - 1)

\* f"{x:.2f}" and f"{x:.1f}" of a non-negative x given in 1/10^decimals
FormatFixed(n, decimals) ==
    LET frac == Digits(n % Pow10(decimals))
    IN  Digits(n \div Pow10(decimals)) \o <<".">>
        \o [i \in 1..(decimals - Len(frac)) |-> "0"] \o frac

RECURSIVE GroupThousands(_)
GroupThousands(digits) ==
    IF Len(digits) <= 3 THEN digits
    ELSE GroupThousands(SubSeq(digits, 1, Len(digits) - 3)) \o <<",">>
         \o SubSeq(digits, Len(digits) - 2, Len(digits))

\* f"{x:,.0f}" of a non-negative whole x
FormatGrouped(n) == GroupThousands(Digits(n))

\* title of the price action item
PriceActionTitle(symbol, direction, pct) ==
    symbol \o <<" ">> \o direction \o <<" ">> \o FormatFixed(pct, 2) \o <<"%", " ", "i", "n", " ", "2", "4", "H", " ", "T", "r", "a", "d", "i", "n", "g">>

\* title of the volume item
VolumeTitle(symbol, volume_intensity, quote_volume) ==
    symbol \o <<" ", "S", "h", "o", "w", "s", " ">> \o volume_intensity \o <<" ", "T", "r", "a", "d", "i", "n", "g", " ", "A", "c", "t", "i", "v", "i", "t", "y", ":", " ", "$">> \o FormatGrouped(quote_volume) \o <<" ", "V", "o", "l", "u", "m", "e">>

\* title of the volatility item
VolatilityTitle(symbol, volatility_pct) ==
    symbol \o <<" ", "E", "x", "p", "e", "r", "i", "e", "n", "c", "e", "s", " ">> \o FormatFixed(volatility_pct, 1) \o <<"%", " ", "I", "n", "t", "r", "a", "d", "a", "y", " ", "V", "o", "l", "a", "t", "i", "l", "i", "t", "y">>

\* title of the trend item
TrendTitle(symbol, trend, weekly_change) ==
    symbol \o <<" ", "i", "n", " ", "S", "t", "r", "o", "n", "g", " ">> \o trend \o <<":", " ">> \o FormatFixed(weekly_change, 1) \o <<"%", " ", "W", "e", "e", "k", "l", "y", " ", "M", "o", "v", "e", "m", "e", "n", "t">>

\* titles of the resistance and support items
ResistanceTitle(symbol, resistance) ==
    symbol \o <<" ", "A", "p", "p", "r", "o", "a", "c", "h", "e", "s", " ", "K", "e", "y", " ", "R", "e", "s", "i", "s", "t", "a", "n", "c", "e", " ", "a", "t", " ", "$">> \o FormatFixed(resistance * 100, 2)

SupportTitle(symbol, support) ==
    symbol \o <<" ", "N", "e", "a", "r", " ", "S", "u", "p", "p", "o", "r", "t", " ", "L", "e", "v", "e", "l", " ", "a", "t", " ", "$">> \o FormatFixed(support * 100, 2)

\* titles of the market sentiment item
SentimentTurnsTitle(symbol, sentiment) ==
    <<"M", "a", "r", "k", "e", "t", " ", "S", "e", "n", "t", "i", "m", "e", "n", "t", " ", "f", "o", "r", " ">> \o symbol \o <<" ", "T", "u", "r", "n", "s", " ">> \o sentiment

SentimentPressureTitle(symbol, sentiment) ==
    sentiment \o <<" ", "P", "r", "e", "s", "s", "u", "r", "e", " ", "O", "b", "s", "e", "r", "v", "e", "d", " ", "o", "n", " ">> \o symbol

CompanyNews(symbol, title, author) ==
    [ticker |-> symbol, title |-> title, author |-> author]

MaxOf(S) == CHOOSE x \in S : \A y \in S : y <= x

MinOf(S) == CHOOSE x \in S : \A y \in S : x <= y

\* company_news_list[:limit]
Take(list, limit) == SubSeq(list, 1, Min(limit, Len(list)))

\* api.py lines 566-577
PriceActionNews(symbol, ticker_data) ==
    IF Abs(ticker_data.priceChangePercent) > 500
    THEN <<CompanyNews(symbol,
               PriceActionTitle(symbol,
                   IF ticker_data.priceChangePercent > 0 THEN <<"S", "u", "r", "g", "e", "s">> ELSE <<"D", "r", "o", "p", "s">>,
                   Abs(ticker_data.priceChangePercent)),
               "Market Analysis")>>
    ELSE <<>>

\* api.py lines 579-590
VolumeNews(symbol, ticker_data) ==
    IF ticker_data.quoteVolume > 0
    THEN <<CompanyNews(symbol,
               VolumeTitle(symbol,
                   IF ticker_data.count > 100000 THEN <<"H", "i", "g", "h">>
                   ELSE IF ticker_data.count > 50000 THEN <<"M", "o", "d", "e", "r", "a", "t", "e">> ELSE <<"L", "o", "w">>,
                   ticker_data.quoteVolume),
               "Market Analysis")>>
    ELSE <<>>

\* api.py lines 592-604
VolatilityNews(symbol, ticker_data) ==
    IF ticker_data.highPrice > 0 /\ ticker_data.lowPrice > 0
    THEN LET volatility_pct ==
                 ((ticker_data.highPrice - ticker_data.lowPrice) * 1000)
                     \div ticker_data.lowPrice
         IN  IF volatility_pct > 100
             THEN <<CompanyNews(symbol, VolatilityTitle(symbol, volatility_pct),
                                "Market Analysis")>>
             ELSE <<>>
    ELSE <<>>

\* api.py lines 606-623; a kline row is [high, low, close]
TrendNews(symbol, klines_data) ==
    IF Len(klines_data) >= 7
    THEN LET week_ago_close == klines_data[Len(klines_data) - 6].close
             today_close == klines_data[Len(klines_data)].close
             weekly_change ==
                 IF today_close >= week_ago_close
                 THEN ((today_close - week_ago_close) * 1000) \div week_ago_close
                 ELSE -(((week_ago_close - today_close) * 1000) \div week_ago_close)
         IN  IF Abs(weekly_change) > 150
             THEN <<CompanyNews(symbol,
                        TrendTitle(symbol,
                            IF weekly_change > 0 THEN <<"U", "p", "t", "r", "e", "n", "d">> ELSE <<"D", "o", "w", "n", "t", "r", "e", "n", "d">>,
                            Abs(weekly_change)),
                        "Technical Analysis")>>
             ELSE <<>>
    ELSE <<>>

\* api.py lines 625-655
LevelNews(symbol, ticker_data, klines_data) ==
    IF Len(klines_data) >= 14
    THEN LET recent == SubSeq(klines_data, Len(klines_data) - 13, Len(klines_data))
             resistance == MaxOf({recent[i].high : i \in 1..14})
             support == MinOf({recent[i].low : i \in 1..14})
             last_price == ticker_data.lastPrice
         IN  (IF (resistance - last_price) * 100 < 5 * last_price
              THEN <<CompanyNews(symbol, ResistanceTitle(symbol, resistance),
                                 "Technical Analysis")>>
              ELSE <<>>)
             \o
             (IF (last_price - support) * 100 < 5 * last_price
              THEN <<CompanyNews(symbol, SupportTitle(symbol, support),
                                 "Technical Analysis")>>
              ELSE <<>>)
    ELSE <<>>

\* api.py lines 657-680
MarketSentimentNews(symbol, ticker_data) ==
    IF ticker_data.priceChangePercent > 0 /\ ticker_data.volume > 0
    THEN <<CompanyNews(symbol,
               SentimentTurnsTitle(symbol,
                   IF ticker_data.priceChangePercent > 300
                   THEN <<"B", "u", "l", "l", "i", "s", "h">> ELSE <<"C", "a", "u", "t", "i", "o", "u", "s", "l", "y", " ", "O", "p", "t", "i", "m", "i", "s", "t", "i", "c">>),
               "Sentiment Analysis")>>
    ELSE IF ticker_data.priceChangePercent < 0
    THEN <<CompanyNews(symbol,
               SentimentPressureTitle(symbol,
                   IF ticker_data.priceChangePercent < -300
                   THEN <<"B", "e", "a", "r", "i", "s", "h">> ELSE <<"C", "a", "u", "t", "i", "o", "u", "s">>),
               "Sentiment Analysis")>>
    ELSE <<>>

\* get_company_news on the two responses it asks for; the klines of a
\* failed klines request are empty
get_company_news(symbol, ticker_status, ticker_data, klines_data, limit) ==
    IF ticker_status # HttpOk THEN <<>>
    ELSE Take(PriceActionNews(symbol, ticker_data)
              \o VolumeNews(symbol, ticker_data)
              \o VolatilityNews(symbol, ticker_data)
              \o TrendNews(symbol, klines_data)
              \o LevelNews(symbol, ticker_data, klines_data)
              \o MarketSentimentNews(symbol, ticker_data),
              limit)

\* str.split(): the maximal runs of characters that are not whitespace
RECURSIVE SplitFrom(_, _, _)
SplitFrom(text, i, word) ==
    IF i > Len(text) THEN (IF word = <<>> THEN <<>> ELSE <<word>>)
    ELSE IF text[i] \in Whitespace
         THEN (IF word = <<>> THEN <<>> ELSE <<word>>) \o SplitFrom(text, i + 1, <<>>)
         ELSE SplitFrom(text, i + 1, Append(word, text[i]))

Split(text) == SplitFrom(text, 1, <<>>)

\* sub in text
Contains(text, sub) ==
    \E i \in 0..(Len(text) - Len(sub)) : SubSeq(text, i + 1, i + Len(sub)) = sub

NewsSignalFirstWord(news_item) ==
    LET sentiment_word == Split(news_item.title)[1]
    IN  IF Contains(sentiment_word, <<"B", "U", "Y">>) THEN "bullish"
        ELSE IF Contains(sentiment_word, <<"S", "E", "L", "L">>) THEN "bearish"
        ELSE "neutral"

\* sentiment.py lines 87-93: the third word of the title
NewsSignal(news_item) ==
    LET sentiment_word == Split(news_item.title)[3]
    IN  IF Contains(sentiment_word, <<"B", "U", "Y">>) THEN "bullish"
        ELSE IF Contains(sentiment_word, <<"S", "E", "L", "L">>) THEN "bearish"
        ELSE "neutral"

\* sentiment.py lines 82-101; recent_returns in percent
NewsSignals(company_news, recent_returns) ==
    IF company_news # <<>>
    THEN [i \in 1..Len(company_news) |-> NewsSignal(company_news[i])]
    ELSE IF recent_returns > 2 THEN <<"bullish", "bullish">>
    ELSE IF recent_returns < -2 THEN <<"bearish", "bearish">>
    ELSE <<"neutral">>

\* list.count
Count(signals, s) == Cardinality({i \in 1..Len(signals) : signals[i] = s})

TradingWeight == 4
NewsWeight == 3
VolatilityWeight == 3

\* sentiment.py lines 127-153, weights in tenths
WeightedSignals(trading_signals, news_signals, volatility_signals) ==
    LET bullish_signals ==
            Count(trading_signals, "bullish") * TradingWeight
            + Count(news_signals, "bullish") * NewsWeight
            + Count(volatility_signals, "bullish") * VolatilityWeight
        bearish_signals ==
            Count(trading_signals, "bearish") * TradingWeight
            + Count(news_signals, "bearish") * NewsWeight
            + Count(volatility_signals, "bearish") * VolatilityWeight
    IN  [bullish_signals |-> bullish_signals,
         bearish_signals |-> bearish_signals,
         overall_signal |->
             IF bullish_signals > bearish_signals THEN "bullish"
             ELSE IF bearish_signals > bullish_signals THEN "bearish"
             ELSE "neutral",
         total_weighted_signals |->
             Len(trading_signals) * TradingWeight
             + Len(news_signals) * NewsWeight
             + Len(volatility_signals) * VolatilityWeight]

\* symbols without whitespace, two of them with BUY or SELL in the name
NewsSymbols == {<<"B", "T", "C", "U", "S", "D", "T">>, <<"B", "U", "Y", "U", "S", "D", "T">>, <<"S", "E", "L", "L", "U", "S", "D", "T">>}

\* the 24hr ticker: price change in 1/100 percent, trade count, prices
TickerData ==
    {[priceChangePercent |-> p, quoteVolume |-> q.quoteVolume, count |-> q.count,
      highPrice |-> h.highPrice, lowPrice |-> h.lowPrice, lastPrice |-> 100,
      volume |-> q.volume] :
        p \in {-700, -200, 0, 250, 400, 1234},
        q \in {[quoteVolume |-> 0, count |-> 0, volume |-> 0],
               [quoteVolume |-> 999, count |-> 60000, volume |-> 5],
               [quoteVolume |-> 1234567, count |-> 200000, volume |-> 5],
               [quoteVolume |-> 2500000, count |-> 10, volume |-> 0]},
        h \in {[highPrice |-> 0, lowPrice |-> 0],
               [highPrice |-> 130, lowPrice |-> 100]}}

KlineRow(high, low, close) == [high |-> high, low |-> low, close |-> close]

\* no klines, a week with a strong rise, a week with a strong fall, and two
\* weeks around the last price
NewsKlines ==
    {<<>>,
     [i \in 1..7 |-> KlineRow(80 + 4 * i, 70 + 4 * i, 75 + 4 * i)],
     [i \in 1..7 |-> KlineRow(140 - 5 * i, 130 - 5 * i, 135 - 5 * i)],
     [i \in 1..14 |-> KlineRow(102, 98, 100)],
     [i \in 1..14 |-> KlineRow(100 + i, 90 + i, 95 + i)]}

\* the signals of the other two sources and the recent mean return (percent)
SentimentContexts ==
    {[trading_signals |-> <<"neutral">>, volatility_signals |-> <<"neutral">>,
      recent_returns |-> 0],
     [trading_signals |-> <<"bullish", "bullish", "bullish">>,
      volatility_signals |-> <<"bullish">>, recent_returns |-> 3],
     [trading_signals |-> <<"bearish">>,
      volatility_signals |-> <<"bearish", "bearish">>, recent_returns |-> -3]}

\* what get_company_news(..., limit=100) is called with at sentiment.py line 78
NewsLimit == 100

\* sentiment_analyst_agent's news step for one ticker: the news fetched, its
\* signals, and the weighted combination with the other two sources
CallNewsSentiment ==
    /\ pc = "idle"
    /\ \E symbol \in NewsSymbols, ticker_status \in {HttpOk, 500},
          ticker_data \in TickerData, klines_data \in NewsKlines,
          context \in SentimentContexts :
        LET company_news ==
                get_company_news(symbol, ticker_status, ticker_data, klines_data, NewsLimit)
            news_signals == NewsSignals(company_news, context.recent_returns)
        IN  call' = [fn |-> "news_sentiment", arg |-> symbol,
                     context |-> context,
                     company_news |-> company_news,
                     news_signals |-> news_signals,
                     value |-> WeightedSignals(context.trading_signals, news_signals,
                                               context.volatility_signals)]
    /\ pc' = "called"
    /\ UNCHANGED <<tickers, portfolio, pending, answers, current_prices,
                   volatility_data, returns_by_ticker, correlation_matrix,
                   active_positions, total_portfolio_value, next_ticker,
                   risk_analysis, result, dates, cache, invocations>>

\* the limit computation of lines 148-185 on given intermediate values
CallPositionLimit ==
    /\ pc = "idle"
    /\ \E v \in 0..MaxVolatility, avg \in AvgCorrelations, pv \in PortfolioValues :
        call' = [fn |-> "position_limit",
                 arg |-> [annualized_volatility |-> v, avg_correlation |-> avg,
                          total_portfolio_value |-> pv],
                 value |-> PositionLimit(v, avg, pv)]
    /\ pc' = "called"
    /\ UNCHANGED <<tickers, portfolio, pending, answers, current_prices,
                   volatility_data, returns_by_ticker, correlation_matrix,
                   active_positions, total_portfolio_value, next_ticker,
                   risk_analysis, result,
                   dates, cache, invocations>>

Next ==
    \/ CallVolatilityAdjustedLimit
    \/ CallCorrelationMultiplier
    \/ CallVolatilityMetrics
    \/ CallCorrelationMetrics
    \/ CallMakeApiRequest
    \/ ApiAttempt
    \/ ApiRequestRaises
    \/ CallGetPrices
    \/ CallNewsSentiment
    \/ CallPositionLimit
    \/ Invoke
    \/ FetchRaises
    \/ FetchNoPrices
    \/ FetchPrices
    \/ FetchInsufficient
    \/ CorrelationStep
    \/ PortfolioValueStep
    \/ LimitMissingPrice
    \/ LimitStep
    \/ Return

Spec == Init /\ [][Next]_vars

(***************************************************************************)
(* A process that enters the agent several times: the module-level cache   *)
(* of get_prices outlives an invocation.                                   *)
(***************************************************************************)
MaxInvocations == 2

RepeatPortfolios ==
    {[cash |-> 1000, positions |-> NoPositions],
     [cash |-> 100,  positions |-> [t \in {"ETHUSDT"} |-> [long |-> 2, short |-> 0]]]}

\* the agent is entered again after it returned or raised
InvokeAgain ==
    /\ pc \in {"idle", "done", "raised"}
    /\ invocations < MaxInvocations
    /\ \E pf \in RepeatPortfolios, d \in DateRanges : Enter(<<"BTCUSDT">>, pf, d)

NextRepeat ==
    \/ InvokeAgain
    \/ FetchRaises
    \/ FetchNoPrices
    \/ FetchPrices
    \/ FetchInsufficient
    \/ CorrelationStep
    \/ PortfolioValueStep
    \/ LimitMissingPrice
    \/ LimitStep
    \/ Return

SpecRepeat == Init /\ [][NextRepeat]_vars

(***************************************************************************)
(* Properties                                                              *)
(***************************************************************************)
Requested == Range(tickers)

\* a full assessment, as opposed to the error record
IsAssessed(rec) == "volatility_metrics" \in DOMAIN rec

\* C1: with cash >= 0, every record of the output, error records included,
\* has remaining_position_limit <= cash; the value may be negative.
C1_LimitWithinCash ==
    portfolio.cash >= 0 =>
        \A t \in DOMAIN risk_analysis :
            risk_analysis[t].remaining_position_limit <= portfolio.cash * LimitScale

\* cash caps a limit the risk budget would allow, next to a negative limit
C1_Witness ==
    /\ pc = "done"
    /\ portfolio.cash >= 0
    /\ \E t \in DOMAIN result.signals :
        /\ IsAssessed(result.signals[t])
        /\ result.signals[t].reasoning.remaining_limit > portfolio.cash * LimitScale
        /\ result.signals[t].remaining_position_limit = portfolio.cash * LimitScale
    /\ \E t \in DOMAIN result.signals : ~IsAssessed(result.signals[t])

\* C2: for a requested symbol with a valid price, remaining_position_limit is
\* min(position_limit - |long*price - short*price|, cash): the exposure is the
\* net one (long = short counts as 0), and the result is negative whenever
\* the net exposure exceeds position_limit.
C2_RemainingLimit ==
    \A t \in DOMAIN risk_analysis :
        HasValidPrice(current_prices, t) =>
            LET rec == risk_analysis[t]
                pos == PositionOf(portfolio, t)
                net == Abs(pos.long * rec.current_price
                           - pos.short * rec.current_price) * LimitScale
            IN  /\ rec.current_price = current_prices[t]
                /\ rec.remaining_position_limit =
                       Min(rec.reasoning.position_limit - net,
                           portfolio.cash * LimitScale)
                /\ (pos.long = pos.short =>
                       rec.reasoning.remaining_limit = rec.reasoning.position_limit)
                /\ (net > rec.reasoning.position_limit =>
                       rec.remaining_position_limit < 0)

\* a fully hedged position with a valid price has been assessed
C2_Witness ==
    /\ pc = "done"
    /\ \E t \in DOMAIN result.signals :
        /\ HasValidPrice(current_prices, t)
        /\ PositionOf(portfolio, t).long = PositionOf(portfolio, t).short
        /\ PositionOf(portfolio, t).long > 0
        /\ result.signals[t].reasoning.position_limit > 0

\* the documented multiplier table, lower tier bounds inclusive
C3_TableMultiplier(v) ==
    CASE v < 25 -> 1000
      [] v >= 25 /\ v < 50 -> 850 - (v - 25) * 4
      [] v >= 50 /\ v < 75 -> 650 - (v - 50) * 6
      [] v >= 75 /\ v < 100 -> 300
      [] v >= 100 -> 130

\* C3: calculate_volatility_adjusted_limit(v) is 0.15 * m(v) with m the
\* documented table (v = 0.25 gives 0.85), and m lies in [0.13, 1.00].
C3_VolatilityTable ==
    call.fn = "calculate_volatility_adjusted_limit" =>
        /\ call.value = 15 * C3_TableMultiplier(call.arg)
        /\ C3_TableMultiplier(call.arg) >= 130
        /\ C3_TableMultiplier(call.arg) <= 1000

\* the call at the breakpoint v = 0.25 returned 0.15 * 0.85
C3_Witness ==
    /\ call.fn = "calculate_volatility_adjusted_limit"
    /\ call.arg = 25
    /\ call.value = 15 * 850

\* the documented correlation table, lower bounds inclusive
C4_TableMultiplier(avg) ==
    CASE avg >= 80 -> 14
      [] avg >= 60 /\ avg < 80 -> 17
      [] avg >= 40 /\ avg < 60 -> 20
      [] avg >= 20 /\ avg < 40 -> 21
      [] avg < 20 -> 22

\* C4: the correlation multiplier applied to a symbol is 0.70 / 0.85 / 1.00 /
\* 1.05 / 1.10 by the tier of its average correlation (lower bounds
\* inclusive, negative averages 1.10) and exactly 1.00 for a null average.
C4_CorrelationTable ==
    /\ call.fn = "calculate_correlation_multiplier" =>
           call.value = C4_TableMultiplier(call.arg)
    /\ call.fn = "position_limit" =>
           call.value.correlation_multiplier =
               IF call.arg.avg_correlation = None THEN 20
               ELSE C4_TableMultiplier(call.arg.avg_correlation.value)
    /\ \A t \in DOMAIN risk_analysis :
           IsAssessed(risk_analysis[t]) =>
               LET avg == risk_analysis[t].correlation_metrics.avg_correlation_with_active
               IN  risk_analysis[t].reasoning.correlation_multiplier =
                       IF avg = None THEN 20 ELSE C4_TableMultiplier(avg.value)

\* one returned record has a negative average (1.10), another a null one (1.00)
C4_Witness ==
    /\ pc = "done"
    /\ \E t, u \in DOMAIN result.signals :
        /\ IsAssessed(result.signals[t])
        /\ IsAssessed(result.signals[u])
        /\ result.signals[t].correlation_metrics.avg_correlation_with_active # None
        /\ result.signals[t].correlation_metrics.avg_correlation_with_active.value < 0
        /\ result.signals[t].reasoning.correlation_multiplier = 22
        /\ result.signals[u].correlation_metrics.avg_correlation_with_active = None
        /\ result.signals[u].reasoning.correlation_multiplier = 20

\* the limit figures of one record or call, from its volatility and value
C5_Unclamped(annualized_volatility, portfolio_value, r) ==
    /\ r.base_position_limit_pct = 15 * C3_TableMultiplier(annualized_volatility)
    /\ r.combined_position_limit_pct =
           r.base_position_limit_pct * r.correlation_multiplier
    /\ r.position_limit = portfolio_value * r.combined_position_limit_pct
    /\ (r.combined_position_limit_pct * 100 > 15 * LimitScale
           <=> (annualized_volatility < 25 /\ r.correlation_multiplier > 20))
    /\ r.combined_position_limit_pct * 1000 <= 165 * LimitScale

C6_Contribution(t) ==
    IF t \in DOMAIN portfolio.positions /\ t \in DOMAIN current_prices
    THEN portfolio.positions[t].long * current_prices[t]
         - portfolio.positions[t].short * current_prices[t]
    ELSE 0

\* C6: the portfolio value used for every limit is cash + sum(long*price) -
\* sum(short*price) over all held symbols, requested or not, with a known
\* price; held symbols without price data add nothing.  Cash 10000 and one
\* long position of 2 units at 500 give 11000.
C6_NetLiquidationValue ==
    pc \in {"limits", "done"} =>
        /\ total_portfolio_value =
               portfolio.cash + C6_Contribution("BTCUSDT")
               + C6_Contribution("ETHUSDT") + C6_Contribution("SOLUSDT")
        /\ \A t \in DOMAIN risk_analysis :
               IsAssessed(risk_analysis[t]) =>
                   risk_analysis[t].reasoning.portfolio_value = total_portfolio_value
        /\ (/\ portfolio.cash = 100
            /\ DOMAIN portfolio.positions = {"ETHUSDT"}
            /\ portfolio.positions["ETHUSDT"] = [long |-> 2, short |-> 0]
            /\ "ETHUSDT" \in DOMAIN current_prices
            /\ current_prices["ETHUSDT"] = 5)
           => total_portfolio_value = 110

\* the example, with the held symbol not requested, used for another
\* symbol's limit
C6_Witness ==
    /\ pc = "done"
    /\ portfolio.cash = 100
    /\ DOMAIN portfolio.positions = {"ETHUSDT"}
    /\ "ETHUSDT" \notin Requested
    /\ "ETHUSDT" \in DOMAIN current_prices
    /\ current_prices["ETHUSDT"] = 5
    /\ total_portfolio_value = 110
    /\ \E t \in DOMAIN result.signals :
        /\ IsAssessed(result.signals[t])
        /\ result.signals[t].reasoning.portfolio_value = 110

\* the provider answered with a response holding no price rows
C7_ZeroRows(t) ==
    /\ t \in DOMAIN answers
    /\ answers[t].kind = "response"
    /\ answers[t].status = HttpOk
    /\ answers[t].klines = <<>>

\* C7: a requested symbol with zero price rows gets remaining_position_limit
\* 0, current_price 0 and a reasoning.error marker, and every other
\* requested symbol still gets its own assessment in the same result; the
\* empty answer does not abort the batch.
C7_ZeroRowsRecord ==
    /\ pc = "done" =>
        \A t \in Requested :
            C7_ZeroRows(t) =>
                /\ t \in DOMAIN result.signals
                /\ result.signals[t].remaining_position_limit = 0
                /\ result.signals[t].current_price = 0
                /\ "error" \in DOMAIN result.signals[t].reasoning
                /\ \A u \in Requested \ {t} :
                    /\ u \in DOMAIN result.signals
                    /\ HasValidPrice(current_prices, u) =>
                           /\ IsAssessed(result.signals[u])
                           /\ result.signals[u].current_price = current_prices[u]
    /\ pc = "raised" => \E t \in DOMAIN answers : ~C7_ZeroRows(t)

\* a returned batch with one zero-row symbol and one assessed symbol
C7_Witness ==
    /\ pc = "done"
    /\ \E t, u \in Requested :
        /\ C7_ZeroRows(t)
        /\ "error" \in DOMAIN result.signals[t].reasoning
        /\ IsAssessed(result.signals[u])

\* C8: every record of the output, the one of a symbol with missing price
\* data included, carries volatility metrics and correlation metrics.
C8_MetricsAlwaysPopulated ==
    \A t \in DOMAIN risk_analysis :
        /\ "volatility_metrics" \in DOMAIN risk_analysis[t]
        /\ "correlation_metrics" \in DOMAIN risk_analysis[t]

\* C9: when the agent returns, the keys of its result are exactly the
\* requested symbols; symbols only held have no record although their prices
\* were fetched.
C9_KeysAreRequested ==
    /\ pc = "done" => DOMAIN result.signals = Requested
    /\ pc = "limits" =>
           DOMAIN risk_analysis = {tickers[i] : i \in 1..(next_ticker - 1)}

\* returned with a held, fetched symbol that was not requested
C9_Witness ==
    /\ pc = "done"
    /\ \E t \in DOMAIN portfolio.positions :
        /\ t \notin Requested
        /\ t \in DOMAIN current_prices
        /\ t \notin DOMAIN result.signals
    /\ \E t \in Requested : ~IsAssessed(result.signals[t])

\* C10: no exception escapes risk_management_agent: a failed fetch (non-200
\* or timeout) makes the symbol a missing-data symbol with the failure in its
\* reasoning.error, and the batch completes for the other symbols.
C10_NoExceptionEscapes ==
    /\ pc # "raised"
    /\ pc = "done" =>
           \A t \in Requested :
               (t \in DOMAIN answers /\ answers[t] \in FailedAnswers) =>
                   "error" \in DOMAIN result.signals[t].reasoning

\* a PortfolioState the specification calls invalid
C11_Invalid(p) ==
    \/ p.cash < 0
    \/ \E t \in DOMAIN p.positions :
           p.positions[t].long < 0 \/ p.positions[t].short < 0

\* C11: a PortfolioState with negative cash or a negative long/short
\* quantity is rejected before any price is fetched or any limit is computed,
\* and no assessment is produced from it.
C11_InvalidPortfolioRejected ==
    C11_Invalid(portfolio) =>
        /\ answers = Empty
        /\ risk_analysis = Empty
        /\ pc \notin {"value", "limits", "done"}

\* C12: for any symbol with fewer than 2 price rows (zero rows included) the
\* volatility metrics the engine substitutes are daily_volatility = 0.03,
\* annualized_volatility = 0.03 * sqrt(365), volatility_percentile = 100 and
\* a sample count equal to the number of price rows.
C12_ShortHistoryFallback ==
    \A t \in DOMAIN volatility_data :
        LET prices == get_prices(answers[t]).prices IN
        Len(prices) < 2 =>
            volatility_data[t] =
                [daily_volatility |-> 300,
                 annualized_volatility |-> (300 * Isqrt(365 * 10000)) \div 10000,
                 volatility_percentile |-> 100,
                 data_points |-> Len(prices)]

\* the percentile the specification gives for 30 or more returns: 100 times
\* the fraction of the 30-sample rolling standard deviations of the whole
\* return history that are <= the daily volatility
C13_RollingPercentile(daily_returns, daily_volatility) ==
    LET windows == 1..(Len(daily_returns) - 29)
        at_most == {i \in windows :
                       Std(SubSeq(daily_returns, i, i + 29)).value <= daily_volatility}
    IN  (100 * Cardinality(at_most)) \div Cardinality(windows)

\* C13: calculate_volatility_metrics returns volatility_percentile = 50 for a
\* return history of at least 2 and fewer than 30 returns, and for 30 or more
\* returns 100 * (fraction of the 30-sample rolling standard deviations over
\* the entire return history that are <= the current daily volatility); the
\* percentile is always within [0, 100].
C13_VolatilityPercentile ==
    call.fn = "calculate_volatility_metrics" =>
        LET daily_returns == DailyReturns(call.arg)
            n == Len(daily_returns)
        IN  /\ (n >= 2 /\ n < 30) => call.value.volatility_percentile = 50
            /\ n >= 30 =>
                   call.value.volatility_percentile =
                       C13_RollingPercentile(daily_returns, call.value.daily_volatility)
            /\ call.value.volatility_percentile \in 0..100

\* a history of more than 30 returns whose percentile lies strictly between
\* the extremes
C13_Witness ==
    /\ pc = "called"
    /\ call.fn = "calculate_volatility_metrics"
    /\ Len(DailyReturns(call.arg)) > 30
    /\ call.value.volatility_percentile \in 1..99

RECURSIVE C14_Sum(_, _)
C14_Sum(f, n) == IF n = 0 THEN 0 ELSE f[n] + C14_Sum(f, n - 1)

\* the sample standard deviation sqrt((n * sum r^2 - (sum r)^2) / (n (n - 1)))
\* of percent returns, in basis points
C14_SampleStd(rs) ==
    LET n == Len(rs)
        s1 == C14_Sum([i \in 1..n |-> rs[i].ret], n)
        s2 == C14_Sum([i \in 1..n |-> rs[i].ret * rs[i].ret], n)
    IN  Isqrt((10000 * (n * s2 - s1 * s1)) \div (n * (n - 1)))

C14_Relation(prices_df, metrics) ==
    LET daily_returns == DailyReturns(prices_df)
        n == Len(daily_returns)
        k == IF n < 60 THEN n ELSE 60
        trailing == SubSeq(daily_returns, n - k + 1, n)
    IN  /\ metrics.daily_volatility >= 0
        /\ metrics.annualized_volatility =
               (metrics.daily_volatility * Isqrt(365 * 10000)) \div 10000
        /\ (n >= 2 /\ \A i \in 1..k : ~trailing[i].inf) =>
               metrics.daily_volatility = C14_SampleStd(trailing)

\* C14: the metrics returned by calculate_volatility_metrics satisfy
\* daily_volatility >= 0 and annualized_volatility = daily_volatility *
\* sqrt(365), where daily_volatility is the sample standard deviation of the
\* trailing min(lookback, number of returns) returns; the relation also holds
\* on the fallback and NaN-replacement paths.
C14_AnnualizedRelation ==
    /\ call.fn = "calculate_volatility_metrics" =>
           C14_Relation(call.arg, call.value)
    /\ \A t \in DOMAIN volatility_data :
           LET prices_df == prices_to_df(get_prices(answers[t]).prices) IN
           Len(prices_df) > 1 => C14_Relation(prices_df, volatility_data[t])

\* a history longer than the lookback: the volatility is taken over the
\* trailing 60 returns only
C14_Witness ==
    /\ pc = "called"
    /\ call.fn = "calculate_volatility_metrics"
    /\ Len(DailyReturns(call.arg)) > 60
    /\ call.value.data_points = 60
    /\ call.value.daily_volatility > 0

\* the timestamps common to the return series of every symbol that has one
C15_CommonTimes ==
    {d \in UNION {TimesOf(returns_by_ticker[t]) : t \in DOMAIN returns_by_ticker} :
        \A t \in DOMAIN returns_by_ticker : d \in TimesOf(returns_by_ticker[t])}

C15_NullCorrelation(rec) ==
    /\ "correlation_metrics" \in DOMAIN rec
    /\ rec.correlation_metrics.avg_correlation_with_active = None
    /\ rec.correlation_metrics.max_correlation_with_active = None
    /\ rec.correlation_metrics.top_correlated_tickers = <<>>
    /\ rec.reasoning.correlation_multiplier = 20

\* C15: the correlation matrix is absent exactly when fewer than 2 symbols
\* have return data or the timestamp intersection of their return series has
\* fewer than 5 rows; whenever it is absent, every requested symbol's record
\* has correlation multiplier 1.00, null average and maximum correlation and
\* an empty top-correlated list, and no error is raised.
C15_AbsentMatrix ==
    /\ pc \in {"value", "limits", "done"} =>
           (correlation_matrix = None <=>
                \/ Cardinality(DOMAIN returns_by_ticker) < 2
                \/ Cardinality(C15_CommonTimes) < 5)
    /\ (pc = "done" /\ correlation_matrix = None) =>
           \A t \in Requested : C15_NullCorrelation(result.signals[t])

\* the comparison set as the specification words it: the active symbols
\* other than the symbol itself, and all other symbols of the matrix only
\* when there is none
C16_ComparisonSet(ticker) ==
    LET others == ActivePositions(portfolio) \ {ticker}
    IN  IF others = {} THEN correlation_matrix.columns \ {ticker} ELSE others

\* the members of a comparison set whose correlation with ticker is defined
C16_Defined(ticker, comparison) ==
    {u \in comparison :
        /\ u \in correlation_matrix.columns
        /\ correlation_matrix.corr[ticker][u] # NaN}

C16_RecordFollows(ticker, rec, comparison) ==
    LET defined == C16_Defined(ticker, comparison)
        top == rec.correlation_metrics.top_correlated_tickers
    IN  /\ {top[i].ticker : i \in 1..Len(top)} = defined
        /\ defined = {} =>
               /\ rec.correlation_metrics = NoCorrelation
               /\ rec.reasoning.correlation_multiplier = 20
        /\ defined # {} =>
               /\ rec.correlation_metrics.avg_correlation_with_active # None
               /\ \A i \in 1..Len(top) :
                      top[i].correlation =
                          correlation_matrix.corr[ticker][top[i].ticker].value

\* C16: for each requested symbol the correlation comparison set is the set
\* of active symbols (non-zero long - short) other than the symbol itself;
\* only when that set is empty does the engine fall back to all other symbols
\* in the matrix; and when the comparison set is empty or all its
\* correlations are undefined the record has null average/maximum, an empty
\* top list and multiplier 1.00.
C16_ComparisonSetIsActive ==
    (pc = "done" /\ correlation_matrix # None) =>
        \A t \in Requested :
            (IsAssessed(result.signals[t]) /\ t \in correlation_matrix.columns) =>
                C16_RecordFollows(t, result.signals[t], C16_ComparisonSet(t))

\* C17: whenever a correlation matrix is produced it is square and symmetric,
\* every entry lies in [-1, 1] and every diagonal entry equals 1, for all
\* aligned return matrices, including ones in which a symbol's aligned
\* returns are all equal.
C17_MatrixWellFormed ==
    correlation_matrix # None =>
        LET cols == correlation_matrix.columns
            corr == correlation_matrix.corr
        IN  /\ DOMAIN corr = cols
            /\ \A a \in cols :
                   /\ DOMAIN corr[a] = cols
                   /\ corr[a][a] = Some(100)
                   /\ \A b \in cols :
                          /\ corr[a][b] = corr[b][a]
                          /\ corr[a][b] # NaN
                          /\ corr[a][b].value \in -100..100

\* every symbol of the first loop: requested or held
C18_AllTickers == Requested \cup DOMAIN portfolio.positions

\* C18: the correlation step is a barrier: the correlation matrix is computed
\* only after the price fetch and volatility estimation of every symbol
\* (requested or held) has completed or fallen back, and no per-symbol limit
\* is computed before the correlation step and the portfolio value
\* computation have finished.
C18_CorrelationBarrier ==
    /\ (pc \in {"value", "limits", "done"} \/ correlation_matrix # None) =>
           /\ pending = {}
           /\ \A t \in C18_AllTickers :
                  t \in DOMAIN answers /\ t \in DOMAIN volatility_data
    /\ correlation_matrix # None => pc \in {"value", "limits", "done"}
    /\ risk_analysis # Empty =>
           /\ pc \in {"limits", "done"}
           /\ active_positions = ActivePositions(portfolio)
           /\ total_portfolio_value = TotalPortfolioValue(portfolio, current_prices)
           /\ correlation_matrix = BuildCorrelationMatrix(returns_by_ticker)

\* a limit computed behind the barrier: three symbols fetched, one of them
\* fallen back, the matrix built
C18_Witness ==
    /\ pc = "limits"
    /\ risk_analysis # Empty
    /\ correlation_matrix # None
    /\ Cardinality(DOMAIN answers) = 3
    /\ \E t \in DOMAIN volatility_data : volatility_data[t].data_points = 0

\* the records the limit loop can produce for a symbol from the fetched data,
\* one for each order in which its comparison symbols can be iterated
C19_Outcomes(ticker) ==
    IF ~HasValidPrice(current_prices, ticker) THEN {ErrorAssessment}
    ELSE IF correlation_matrix # None /\ ticker \in correlation_matrix.columns
    THEN {RiskAssessment(portfolio, ticker, current_prices[ticker],
                         VolDataOf(volatility_data, ticker),
                         CorrelationMetrics(ticker, correlation_matrix, comparable),
                         total_portfolio_value) :
            comparable \in Orderings(ComparableSet(ticker, correlation_matrix,
                                                   active_positions))}
    ELSE {RiskAssessment(portfolio, ticker, current_prices[ticker],
                         VolDataOf(volatility_data, ticker), NoCorrelation,
                         total_portfolio_value)}

\* C19: two invocations with identical requested symbols, identical
\* PortfolioState and identical fetched price data produce identical output
\* (same records, same values, same order of top correlated symbols),
\* independent of the order in which symbols are iterated or fetched: the
\* inputs leave one possible record for every requested symbol.
C19_Deterministic ==
    pc = "done" =>
        \A t \in Requested :
            /\ result.signals[t] \in C19_Outcomes(t)
            /\ Cardinality(C19_Outcomes(t)) = 1

\* C20: risk_management_agent treats PortfolioState as read-only: after any
\* invocation, including ones that hit missing-data paths, the portfolio's
\* cash and every position's long/short quantities are unchanged.
C20_PortfolioReadOnly == [][pc # "idle" => portfolio' = portfolio]_vars

\* a returned batch over held positions in which a symbol took the
\* missing-data path
C20_Witness ==
    /\ pc = "done"
    /\ portfolio \in Portfolios
    /\ DOMAIN portfolio.positions # {}
    /\ \E t \in Requested : ~IsAssessed(result.signals[t])
    /\ \E t \in DOMAIN portfolio.positions : t \notin DOMAIN current_prices

\* the current price an invocation derives from a provider answer alone
C21_PriceFrom(answer) ==
    LET prices_df == prices_to_df(get_prices(answer).prices)
    IN  IF Len(prices_df) > 1 /\ prices_df[Len(prices_df)].close > 0
        THEN prices_df[Len(prices_df)].close
        ELSE 0

\* C21: nothing persists across invocations: the result of an invocation
\* depends only on that invocation's inputs and the provider's current
\* answer, never on an earlier invocation (in particular not on price data
\* retained from an earlier fetch).
C21_NothingPersists ==
    pc = "done" =>
        \A t \in Requested :
            /\ ~get_prices(answers[t]).raised
            /\ result.signals[t].current_price = C21_PriceFrom(answers[t])

\* the trailing returns the daily volatility is taken over
C22_Trailing(prices_df) ==
    LET daily_returns == DailyReturns(prices_df)
        n == Len(daily_returns)
        k == IF n < 60 THEN n ELSE 60
    IN  SubSeq(daily_returns, n - k + 1, n)

\* the standard deviation of the trailing returns is undefined: one of them
\* is infinite (a return from a zero close)
C22_Undefined(prices_df) ==
    /\ Len(DailyReturns(prices_df)) >= 2
    /\ \E i \in 1..Len(C22_Trailing(prices_df)) : C22_Trailing(prices_df)[i].inf

\* C22: when a volatility computation yields an undefined (NaN) value,
\* calculate_volatility_metrics replaces each affected field individually
\* (daily_volatility by 0.03, annualized_volatility by 0.03 * sqrt(365),
\* volatility_percentile by its default) while the unaffected fields keep
\* their computed values, and no exception is raised.
C22_NaNReplacedPerField ==
    (call.fn = "calculate_volatility_metrics" /\ C22_Undefined(call.arg)) =>
        /\ call.value.daily_volatility = 300
        /\ call.value.annualized_volatility = (300 * Isqrt(365 * 10000)) \div 10000
        /\ call.value.data_points = Len(C22_Trailing(call.arg))
        /\ Len(DailyReturns(call.arg)) < 30 => call.value.volatility_percentile = 50

C22_Witness ==
    /\ pc = "called"
    /\ call.fn = "calculate_volatility_metrics"
    /\ C22_Undefined(call.arg)
    /\ call.value.daily_volatility = 300
    /\ call.value.volatility_percentile = 50

C23_TopList(ticker, metrics, defined_count) ==
    LET top == metrics.top_correlated_tickers
        max_corr == metrics.max_correlation_with_active
        avg_corr == metrics.avg_correlation_with_active
    IN  avg_corr # None =>
            /\ Len(top) = (IF defined_count < 3 THEN defined_count ELSE 3)
            /\ \A i \in 1..(Len(top) - 1) : top[i].correlation >= top[i + 1].correlation
            /\ \A i \in 1..Len(top) : top[i].ticker # ticker
            /\ top[1].correlation = max_corr.value
            /\ avg_corr.value <= max_corr.value

\* the number of defined correlations between ticker and its comparison set
C23_DefinedCount(ticker, matrix, active) ==
    Cardinality({u \in ComparableSet(ticker, matrix, active) :
                    matrix.corr[ticker][u] # NaN})

\* C23: for every record with non-null correlation metrics,
\* top_correlated_tickers has min(3, number of defined correlations in the
\* comparison set) entries, is ordered by correlation descending, never
\* contains the symbol itself, its first entry's correlation equals
\* max_correlation_with_active, and avg_correlation_with_active <=
\* max_correlation_with_active.
C23_TopCorrelated ==
    /\ call.fn = "correlation_metrics" =>
           C23_TopList(call.arg.ticker, call.value,
               C23_DefinedCount(call.arg.ticker,
                   MatrixWithRow(call.arg.ticker, call.arg.row),
                   call.arg.active_positions))
    /\ pc = "done" =>
           \A t \in Requested :
               (IsAssessed(result.signals[t]) /\ correlation_matrix # None
                    /\ t \in correlation_matrix.columns) =>
                   C23_TopList(t, result.signals[t].correlation_metrics,
                       C23_DefinedCount(t, correlation_matrix, active_positions))

\* four defined correlations, the symbol itself among the active positions:
\* the list is cut to three
C23_Witness ==
    /\ pc = "called"
    /\ call.fn = "correlation_metrics"
    /\ call.arg.active_positions = ComparedSymbols \cup {"BTCUSDT"}
    /\ \A u \in ComparedSymbols : call.arg.row[u] # NaN
    /\ Len(call.value.top_correlated_tickers) = 3
    /\ call.value.avg_correlation_with_active.value
           < call.value.max_correlation_with_active.value

\* a call of _make_api_request, running or returned
C24_Running == call.fn = "_make_api_request"

C24_Returned == C24_Running /\ pc = "called"

C24_Bounded ==
    C24_Running =>
        /\ Len(call.statuses) <= call.arg + 1
        /\ call.attempt <= call.arg
        /\ call.delays = [k \in 1..call.attempt |-> 60 + 30 * (k - 1)]
        /\ \A i \in 1..call.attempt : call.statuses[i] = 429
        /\ pc = "request" => Len(call.statuses) = call.attempt
        /\ C24_Returned =>
               /\ Len(call.statuses) = call.attempt + 1
               /\ call.value.status_code = call.statuses[Len(call.statuses)]
               /\ call.value.status_code = 429 => call.attempt = call.arg

\* every pass of the loop returns or uses up one of the attempts
C24_Progress ==
    (pc = "request" /\ call' # call) =>
        \/ pc' = "called"
        \/ pc' = "request" /\ call'.attempt = call.attempt + 1

C25_CacheHits ==
    call.fn = "get_prices" =>
        /\ call.earlier =>
               /\ ~call.http
               /\ ~call.value.raised
               /\ call.value.prices = call.seen[call.arg]
        /\ ~call.earlier => call.http
        /\ DOMAIN cache = DOMAIN call.seen
        /\ \A k \in DOMAIN cache : cache[k] # <<>>

\* a third call: its key returned rows at the first call, the second call
\* failed or came back empty, and the provider would now answer otherwise
C25_Witness ==
    /\ pc = "called"
    /\ call.fn = "get_prices"
    /\ call.n = 3
    /\ call.earlier
    /\ ~call.http
    /\ call.answer.klines # call.value.prices
    /\ Cardinality(DOMAIN cache) = 1

\* C26: the base allocation percentage returned by
\* calculate_volatility_adjusted_limit is monotonically non-increasing in
\* annualized volatility: for all v1 <= v2, limit(v1) >= limit(v2), across
\* and within all five tiers.
C26_NonIncreasing ==
    call.fn = "calculate_volatility_adjusted_limit" =>
        \A v2 \in call.arg..MaxVolatility :
            call.value >= calculate_volatility_adjusted_limit(v2)

\* a call in the lowest tier, compared with volatilities of all five tiers
\* and with the sloped tiers' inner values
C26_Witness ==
    /\ pc = "called"
    /\ call.fn = "calculate_volatility_adjusted_limit"
    /\ call.arg < 25
    /\ MaxVolatility >= 100
    /\ Cardinality({calculate_volatility_adjusted_limit(v2) : v2 \in call.arg..MaxVolatility}) > 5

\* the symbols the provider answered with exactly one price row
C27_OneRow ==
    {t \in DOMAIN answers :
        /\ answers[t].kind = "response"
        /\ answers[t].status = HttpOk
        /\ Len(answers[t].klines) = 1}

\* the portfolio without its positions in one-row symbols
C27_Others ==
    [cash |-> portfolio.cash,
     positions |-> [t \in DOMAIN portfolio.positions \ C27_OneRow |->
                       portfolio.positions[t]]]

\* C27: a symbol whose provider returns exactly one price row is handled
\* like a symbol with no usable price: its current price is recorded as 0, a
\* requested such symbol gets the error record with remaining_position_limit
\* 0, and a held position in it adds 0 to the portfolio value although a
\* close price exists.
C27_OneRowIsMissing ==
    pc \in {"fetch", "value", "limits", "done"} =>
        /\ \A t \in C27_OneRow :
            /\ t \in DOMAIN current_prices
            /\ current_prices[t] = 0
            /\ (pc = "done" /\ t \in Requested) =>
                   /\ result.signals[t] = ErrorAssessment
                   /\ result.signals[t].remaining_position_limit = 0
        /\ pc \in {"limits", "done"} =>
               total_portfolio_value = TotalPortfolioValue(C27_Others, current_prices)

\* returned: a requested symbol held long had one row with a positive close
C27_Witness ==
    /\ pc = "done"
    /\ \E t \in C27_OneRow :
        /\ t \in Requested
        /\ t \in DOMAIN portfolio.positions
        /\ portfolio.positions[t].long > 0
        /\ answers[t].klines[1].close > 0
        /\ total_portfolio_value = portfolio.cash

\* at least 3 rows, every close equal and positive
C28_FlatCloses(rows) ==
    /\ Len(rows) >= 3
    /\ \A i \in 1..Len(rows) : rows[i].close = rows[1].close /\ rows[i].close > 0

\* C28: for a symbol whose closes are all equal and positive over at least 3
\* price rows, calculate_volatility_metrics returns daily_volatility = 0 and
\* annualized_volatility = 0 (not the 0.03 fallback), so the symbol receives
\* the maximum base allocation of 15%.
C28_FlatIsZeroVolatility ==
    /\ (call.fn = "calculate_volatility_metrics" /\ C28_FlatCloses(call.arg)) =>
           /\ call.value.daily_volatility = 0
           /\ call.value.annualized_volatility = 0
           /\ call.value.daily_volatility # SafeVolatilityThreshold
           /\ calculate_volatility_adjusted_limit(call.value.annualized_volatility)
                  = MaxPositionSize * 1000
    /\ pc = "done" =>
           \A t \in Requested :
               (/\ answers[t].kind = "response"
                /\ answers[t].status = HttpOk
                /\ C28_FlatCloses(answers[t].klines)) =>
                   /\ IsAssessed(result.signals[t])
                   /\ result.signals[t].volatility_metrics.daily_volatility = 0
                   /\ result.signals[t].volatility_metrics.annualized_volatility = 0
                   /\ result.signals[t].reasoning.base_position_limit_pct
                          = MaxPositionSize * 1000

\* a direct call on exactly 3 equal closes
C28_Witness ==
    /\ pc = "called"
    /\ call.fn = "calculate_volatility_metrics"
    /\ C28_FlatCloses(call.arg)
    /\ Len(call.arg) = 3
    /\ call.value.data_points = 2

\* a returned batch with a requested symbol of equal closes
C28_WitnessAgent ==
    /\ pc = "done"
    /\ \E t \in Requested :
        /\ answers[t].kind = "response"
        /\ C28_FlatCloses(answers[t].klines)
        /\ result.signals[t].reasoning.base_position_limit_pct = MaxPositionSize * 1000

\* the number of returns of a frame, every one of them finite
C29_Returns(rows) ==
    IF AnyInf(DailyReturns(rows)) THEN -1 ELSE Len(DailyReturns(rows))

\* C29: with the default lookback of 60 and a return history of exactly 30
\* defined returns, calculate_volatility_metrics returns
\* volatility_percentile = 100 (in exact arithmetic): the single 30-sample
\* rolling value equals the current daily volatility, so the percentile
\* jumps from 50 at 29 returns to 100 at 30 returns.
C29_PercentileJump ==
    call.fn = "calculate_volatility_metrics" =>
        /\ C29_Returns(call.arg) = RollingWindow =>
               /\ call.value.volatility_percentile = 100
               /\ Len(RollingVol(DailyReturns(call.arg))) = 1
               /\ RollingVol(DailyReturns(call.arg))[1].value
                      = call.value.daily_volatility
               /\ call.value.data_points = RollingWindow
        /\ C29_Returns(call.arg) = RollingWindow - 1 =>
               call.value.volatility_percentile = 50

\* a call with exactly 30 returns that are not all equal
C29_Witness ==
    /\ pc = "called"
    /\ call.fn = "calculate_volatility_metrics"
    /\ C29_Returns(call.arg) = RollingWindow
    /\ RollingWindow < LookbackDays
    /\ call.value.daily_volatility > 0
    /\ call.value.volatility_percentile = 100

\* a call with exactly 29 returns
C29_WitnessBelow ==
    /\ pc = "called"
    /\ call.fn = "calculate_volatility_metrics"
    /\ C29_Returns(call.arg) = RollingWindow - 1
    /\ call.value.volatility_percentile = 50

C30_Shapes ==
    {LET words == Split(call.company_news[i].title)
     IN  IF words[1] = call.arg THEN <<words[2]>> ELSE <<words[1], words[2]>> :
        i \in 1..Len(call.company_news)}

====
